---- MODULE Spec2Model ----
(***************************************************************************)
(* Model of elastic-debugger.                                              *)
(*                                                                         *)
(*   SpecScan   - the backward windowed log scans: get_all_events          *)
(*                (utils.rs), Bridgehub::detect_chains_with_newchain_event *)
(*                (bridgehub.rs) and detect_hyperchains (stm.rs).          *)
(*   SpecScanFair - SpecScan with the scan task taking its steps.          *)
(*   SpecMerkle - compute_merkle_tree (priority_transactions.rs).          *)
(*   SpecVerify - StateTransition::verify_priority_root_hash: the fetch of *)
(*                the priority transactions (a get_all_events scan), the   *)
(*                Merkle root and the comparison (statetransition.rs).     *)
(*   SpecMain   - main's per-chain loops and the report (main.rs).         *)
(*   SpecAsset  - RegisteredAsset::new: the classification of a registered *)
(*                asset by its deployment tracker (l1_asset_router.rs).    *)
(*   SpecBalances - Bridgehub::get_chain_balances (bridgehub.rs).          *)
(*   SpecDetails - Bridgehub::get_chain_details (bridgehub.rs).            *)
(*   SpecDetect - detect_sequencer (sequencer.rs).                         *)
(*   SpecHub    - Bridgehub::new (bridgehub.rs, l2_asset_router.rs).       *)
(*   SpecJoin   - the join_all fan-outs of Bridgehub::new (one task per    *)
(*                manager) and L1AssetRouter::new (one per registration).  *)
(*   SpecSnapshot - the reads of Bridgehub::new against a chain that grows *)
(*                while they are made (bridgehub.rs, utils.rs).            *)
(*                                                                         *)
(* A scan runs against a chain whose head and logs are fixed while the     *)
(* scan runs; every remote call either returns or fails.                   *)
(***************************************************************************)
EXTENDS Integers, Sequences, FiniteSets, TLC

VARIABLES
    scan,             \* which scan function is running
    head,             \* the chain's block height (what getBlockNumber returns)
    events,           \* blocks of the chain that carry a log matching the filter
    block_limit,      \* get_all_events' block_limit argument
    pc,               \* position of the scan function
    current_block,    \* local `current_block`
    steps,            \* local `steps` (get_all_events only)
    result,           \* local `result`: the logs collected so far
    windows,          \* the filters handed to get_logs, in issue order
    responses,        \* number of get_logs calls that have come back (Ok or Err)
    blockNumberCalls, \* number of get_block_number calls issued
    failedCall,       \* the remote call that failed, "none" if none did
    ret,              \* the value the scan function returned
    txs,              \* compute_merkle_tree's argument
    mpc,              \* position of compute_merkle_tree
    size,             \* local `size`
    leaves,           \* local `leaves`
    filled,           \* number of txs the `for tx in txs` loop has consumed
    reductions,       \* number of keccak256(left || right) calls made
    root,             \* the value compute_merkle_tree returned
    sequencer_type,   \* Sequencer::sequencer_type of the sequencer the fetch uses
    priority_tree_root, \* StateTransition::priority_tree_root (read at construction)
    fpc,              \* position of fetch_all_priority_transactions
    fetched,          \* the Vec<PriorityTransaction> the fetch returned
    vpc,              \* position of verify_priority_root_hash
    vret,             \* the value verify_priority_root_hash returned
    network,          \* args.network.unwrap_or(Network::Local)
    sorted_chains,    \* main's `sorted_chains`
    cursor,           \* position of the running `for chain in &sorted_chains` loop
    mainpc,           \* position of main
    chain_reports,    \* main's `chain_reports`: chain id -> ChainDiagnostics
    state_transitions, \* the keys of main's `state_transitions`
    verified,         \* per chain, what verify_priority_root_hash returned to main
    exitCause,        \* the call whose failure ended main, "none" if none did
    report            \* the DiagnosticsReport written: its `chains`, and whether it was written

VARIABLES
    asset_id,         \* RegisteredAsset::new's `asset_id`
    deployment_tracker, \* RegisteredAsset::new's `deployment_tracker`
    native_token_vault, \* RegisteredAsset::new's `native_token_vault`
    bridgehub,        \* RegisteredAsset::new's `bridgehub`
    apc,              \* position of RegisteredAsset::new
    token_address,    \* local `token_address`
    handler,          \* the AssetHandler of the RegisteredAsset returned
    assetReads        \* the remote reads RegisteredAsset::new has issued, in order

VARIABLES
    asset_router,     \* Bridgehub::asset_router: its kind and its registered_assets
    chain_id,         \* get_chain_balances' `chain_id`
    bpc,              \* position of get_chain_balances
    pending,          \* asset ids the `for (asset_id, asset) in assets` loop has yet to visit
    balanceQueries,   \* the asset ids chain_balance was called with, in order
    balances,         \* local `result`: asset name -> amount
    bret              \* the value get_chain_balances returned

VARIABLES
    chain_answers,    \* what the chain answers to each read of get_chain_details
    dpc,              \* position of get_chain_details: the read awaited
    details,          \* get_chain_details' locals, the fields of BridgehubChainDetails
    detailsReads,     \* the reads get_chain_details has issued, in order
    dret              \* the value get_chain_details returned

VARIABLES
    endpoint,         \* what the endpoint at rpc_url answers to each probe and read
    qpc,              \* position of detect_sequencer: the call awaited
    sequencer,        \* detect_sequencer's locals, the fields of Sequencer
    detectCalls,      \* the calls detect_sequencer has made, in order
    qret              \* the value detect_sequencer returned

VARIABLES
    hub_sequencer_type, \* sequencer.sequencer_type of Bridgehub::new's `sequencer`
    autodetect_chains, \* Bridgehub::new's `autodetect_chains`
    manager_events,   \* the managers of the StateTransitionManagerAdded logs, oldest last
    hpc,              \* position of Bridgehub::new
    hub,              \* Bridgehub::new's locals, the fields of Bridgehub
    hubCalls,         \* the remote calls Bridgehub::new has made, in order
    hret              \* the value Bridgehub::new returned

VARIABLES
    join_parent,      \* the constructor that runs join_all: Bridgehub or L1AssetRouter
    join_inputs,      \* the decoded logs the tasks are made from, in list order
    task_reads,       \* per task, the number of its remote reads that have returned
    task_results,     \* per task, the child it returned
    task_done,        \* the tasks that have completed, in completion order
    jpc,              \* position of the constructor around join_all
    children          \* the children of the parent constructed

VARIABLES
    chain_blocks,     \* the chain: per block, the registry event it carries ("none" if none)
    snpc,             \* position of Bridgehub::new: the part it reads next
    snapshot,         \* per part of the Bridgehub, what was read for it
    read_heads        \* per part read, the chain head when it was read

scanVars == <<scan, head, events, block_limit, pc, current_block, steps, result,
              windows, responses, blockNumberCalls, failedCall, ret>>
merkleVars == <<txs, mpc, size, leaves, filled, reductions, root>>
verifyVars == <<sequencer_type, priority_tree_root, fpc, fetched, vpc, vret>>
mainVars == <<network, sorted_chains, cursor, mainpc, chain_reports,
              state_transitions, verified, exitCause, report>>
assetVars == <<asset_id, deployment_tracker, native_token_vault, bridgehub, apc,
               token_address, handler, assetReads>>
balanceVars == <<asset_router, chain_id, bpc, pending, balanceQueries, balances, bret>>
detailsVars == <<chain_answers, dpc, details, detailsReads, dret>>
detectVars == <<endpoint, qpc, sequencer, detectCalls, qret>>
hubVars == <<hub_sequencer_type, autodetect_chains, manager_events, hpc, hub,
             hubCalls, hret>>
joinVars == <<join_parent, join_inputs, task_reads, task_results, task_done, jpc,
              children>>
snapVars == <<chain_blocks, snpc, snapshot, read_heads>>
vars == <<scanVars, merkleVars, verifyVars, mainVars, assetVars, balanceVars, detailsVars, detectVars, hubVars, joinVars, snapVars>>

\* what the actions of one part leave alone in the other parts
exceptScan == <<merkleVars, verifyVars, mainVars, assetVars, balanceVars, detailsVars, detectVars, hubVars, joinVars, snapVars>>
exceptMerkle == <<scanVars, verifyVars, mainVars, assetVars, balanceVars, detailsVars, detectVars, hubVars, joinVars, snapVars>>
exceptVerify == <<mainVars, assetVars, balanceVars, detailsVars, detectVars, hubVars, joinVars, snapVars>>
exceptMain == <<scanVars, merkleVars, verifyVars, assetVars, balanceVars, detailsVars, detectVars, hubVars, joinVars, snapVars>>
exceptAsset == <<scanVars, merkleVars, verifyVars, mainVars, balanceVars, detailsVars, detectVars, hubVars, joinVars, snapVars>>
exceptBalances == <<scanVars, merkleVars, verifyVars, mainVars, assetVars, detailsVars, detectVars, hubVars, joinVars, snapVars>>
exceptDetails == <<scanVars, merkleVars, verifyVars, mainVars, assetVars, balanceVars, detectVars, hubVars, joinVars, snapVars>>
exceptDetect == <<scanVars, merkleVars, verifyVars, mainVars, assetVars, balanceVars, detailsVars, hubVars, joinVars, snapVars>>
exceptHub == <<scanVars, merkleVars, verifyVars, mainVars, assetVars, balanceVars, detailsVars, detectVars, joinVars, snapVars>>
exceptJoin == <<scanVars, merkleVars, verifyVars, mainVars, assetVars, balanceVars, detailsVars, detectVars, hubVars, snapVars>>
exceptSnap == <<scanVars, merkleVars, verifyVars, mainVars, assetVars, balanceVars, detailsVars, detectVars, hubVars, joinVars>>

----------------------------------------------------------------------------
(* Bounds of the model.                                                    *)

\* Heads and depth limits range over k * window + r, k \in 0..MaxWindows.
MaxWindows == 3
\* compute_merkle_tree is run on every list of at most MaxTxs events whose
\* indices are at most MaxIndex, and on the dense lists of up to MaxDense events.
MaxTxs == 3
MaxIndex == 3
MaxDense == 5
\* verify_priority_root_hash runs against chains of up to MaxFetchWindows windows of blocks.
MaxFetchWindows == 12
\* main runs over the known chains 1..n, n <= MaxChains.
MaxChains == 3
\* At most MaxManagers managers were added to the bridgehub.
MaxManagers == 3
\* join_all is run on at most MaxTasks futures.
MaxTasks == 3
\* The chain grows to at most MaxBlocks blocks while Bridgehub::new runs.
MaxBlocks == 3

----------------------------------------------------------------------------
(* Arithmetic helpers.                                                     *)

Min(a, b) == IF a <= b THEN a ELSE b
Max(a, b) == IF a >= b THEN a ELSE b
CeilDiv(a, b) == (a + b - 1) \div b

----------------------------------------------------------------------------
(* The scans.                                                              *)

GET_ALL_EVENTS == "get_all_events"
DETECT_NEWCHAIN == "detect_chains_with_newchain_event"
DETECT_HYPERCHAINS == "detect_hyperchains"
Scans == {GET_ALL_EVENTS, DETECT_NEWCHAIN, DETECT_HYPERCHAINS}

\* utils.rs: const BLOCKS_PER_CALL: u64 = 500
BLOCKS_PER_CALL == 500
\* bridgehub.rs / stm.rs: the literal in current_block.saturating_sub(10000)
DETECT_BLOCKS_PER_CALL == 10000
\* priority_transactions.rs: the block_limit fetch_all_priority_transactions passes
PRIORITY_BLOCK_LIMIT == 5000

BlocksPerCall(s) == IF s = GET_ALL_EVENTS THEN BLOCKS_PER_CALL ELSE DETECT_BLOCKS_PER_CALL

\* u64::saturating_sub
SaturatingSub_Plain(a, b) == a - b
SaturatingSub(a, b) == IF a >= b THEN a - b ELSE 0

\* let prev_limit = current_block.saturating_sub(BLOCKS_PER_CALL)
PrevLimit(s, cb) == SaturatingSub(cb, BlocksPerCall(s))

\* Filter::new().from_block(prev_limit + 1).to_block(current_block)
Filter_FromPrevLimit(s, cb) == [from_block |-> PrevLimit(s, cb), to_block |-> cb]
Filter(s, cb) == [from_block |-> PrevLimit(s, cb) + 1, to_block |-> cb]

\* current_block = prev_limit
NextBlock_Stay(s, cb) == cb
NextBlock_SkipOne(s, cb) == SaturatingSub(PrevLimit(s, cb), 1)
NextBlock(s, cb) == PrevLimit(s, cb)

\* let mut steps = block_limit / BLOCKS_PER_CALL + 1  (u64 division truncates;
\* the sum cannot overflow: block_limit / 500 + 1 < 2^64 for every u64)
InitialSteps_Ceil(limit) == CeilDiv(limit, BLOCKS_PER_CALL) + 1
InitialSteps_NoPlusOne(limit) == limit \div BLOCKS_PER_CALL
InitialSteps(limit) == limit \div BLOCKS_PER_CALL + 1

\* get_logs(&filter): the chain's matching logs in the filter's block range,
\* in ascending block order.  A log is identified by its block.
RECURSIVE LogsBetween(_, _, _)
LogsBetween(evs, from, to) ==
    LET S == {b \in evs : from <= b /\ b <= to}
    IN  IF S = {} THEN <<>>
        ELSE LET lo == CHOOSE b \in S : \A c \in S : b <= c
             IN  <<lo>> \o LogsBetween(evs \ {lo}, from, to)
GetLogs(evs, f) == LogsBetween(evs, f.from_block, f.to_block)

\* result.append(&mut logs): the logs go to the end of the vector
VecAppend_Front(res, logs) == logs \o res
VecAppend(res, logs) == res \o logs

\* `?` on a failed remote call: the function returns the error, its locals are dropped
ErrReturn_PartialOk(res) == [ok |-> TRUE, logs |-> res]
ErrReturn(res) == [ok |-> FALSE, logs |-> <<>>]
\* Ok(result)
OkReturn(res) == [ok |-> TRUE, logs |-> res]
NoReturn == [ok |-> FALSE, logs |-> <<>>]

\* The heads and depth limits the model draws from: every multiple of the
\* window up to MaxWindows windows, plus the residues 1, window / 2, window - 1.
Residues(w) == {0, 1, w \div 2, w - 1}
Heights(w) == {k * w + r : k \in 0..MaxWindows, r \in Residues(w)}
Limits == Heights(BLOCKS_PER_CALL) \cup {PRIORITY_BLOCK_LIMIT}
\* The chain's matching logs sit at the first block, at the head, or both.
EventBlocks(h) == {1, h} \cap (1..h)

\* The values of a part's variables while that part is not running.
NoChain == head = 0 /\ events = {}
ScanIdle ==
    /\ scan = GET_ALL_EVENTS /\ block_limit = 0
    /\ pc = "idle" /\ current_block = 0 /\ steps = 0 /\ result = <<>>
    /\ windows = <<>> /\ responses = 0 /\ blockNumberCalls = 0
    /\ failedCall = "none" /\ ret = NoReturn
MerkleIdle ==
    /\ txs = <<>> /\ mpc = "idle" /\ size = 0 /\ leaves = <<>>
    /\ filled = 0 /\ reductions = 0 /\ root = <<>>
VerifyIdle ==
    /\ sequencer_type = "L1" /\ priority_tree_root = <<>>
    /\ fpc = "idle" /\ fetched = <<>> /\ vpc = "idle"
    /\ vret = [ok |-> FALSE, error |-> "none", onchain |-> <<>>, computed |-> <<>>]

MainIdle ==
    /\ network = "Local" /\ sorted_chains = <<>> /\ cursor = 0 /\ mainpc = "idle"
    /\ chain_reports = <<>> /\ state_transitions = {} /\ verified = <<>>
    /\ exitCause = "none" /\ report = [written |-> FALSE, chains |-> <<>>]
BalancesIdle ==
    /\ asset_router = [kind |-> "L2", registered_assets |-> <<>>]
    /\ chain_id = 0 /\ bpc = "idle" /\ pending = {} /\ balanceQueries = <<>>
    /\ balances = <<>> /\ bret = [ok |-> FALSE, error |-> "none", table |-> <<>>]
AssetIdle ==
    /\ asset_id = "-" /\ deployment_tracker = "-" /\ native_token_vault = "-"
    /\ bridgehub = "-" /\ apc = "idle" /\ token_address = "-"
    /\ handler = [variant |-> "none", address |-> "-", token_name |-> "-"]
    /\ assetReads = <<>>
DetectIdle ==
    /\ endpoint = <<>> /\ qpc = "idle" /\ sequencer = <<>>
    /\ detectCalls = <<>> /\ qret = [ok |-> FALSE, error |-> "none", sequencer |-> <<>>]
DetailsIdle ==
    /\ chain_answers = <<>> /\ dpc = "idle" /\ details = <<>>
    /\ detailsReads = <<>> /\ dret = [ok |-> FALSE, error |-> "none", details |-> <<>>]
JoinIdle ==
    /\ join_parent = "Bridgehub" /\ join_inputs = <<>> /\ task_reads = <<>>
    /\ task_results = <<>> /\ task_done = <<>> /\ jpc = "idle" /\ children = <<>>
HubIdle ==
    /\ hub_sequencer_type = "L1" /\ autodetect_chains = FALSE /\ manager_events = <<>>
    /\ hpc = "idle" /\ hub = <<>> /\ hubCalls = <<>>
    /\ hret = [ok |-> FALSE, error |-> "none", bridgehub |-> <<>>]
SnapIdle ==
    /\ chain_blocks = <<>> /\ snpc = "idle" /\ snapshot = <<>> /\ read_heads = <<>>

InitScan ==
    /\ scan \in Scans
    /\ head \in Heights(BlocksPerCall(scan))
    /\ events \in SUBSET EventBlocks(head)
    /\ block_limit \in (IF scan = GET_ALL_EVENTS THEN Limits ELSE {0})
    /\ pc = "call"
    /\ current_block = 0
    /\ steps = 0
    /\ result = <<>>
    /\ windows = <<>>
    /\ responses = 0
    /\ blockNumberCalls = 0
    /\ failedCall = "none"
    /\ ret = NoReturn
    /\ MerkleIdle
    /\ VerifyIdle
    /\ MainIdle
    /\ AssetIdle
    /\ BalancesIdle
    /\ DetailsIdle
    /\ DetectIdle
    /\ HubIdle
    /\ JoinIdle
    /\ SnapIdle

\* provider.get_block_number() is issued
CallGetBlockNumber ==
    /\ pc = "call"
    /\ pc' = "await_head"
    /\ blockNumberCalls' = blockNumberCalls + 1
    /\ UNCHANGED <<scan, head, events, block_limit, current_block, steps, result,
                   windows, responses, failedCall, ret, exceptScan>>

\* get_block_number().await returned Ok: the locals are initialised
GetBlockNumberOk ==
    /\ pc = "await_head"
    /\ current_block' = head
    /\ result' = <<>>
    /\ steps' = IF scan = GET_ALL_EVENTS THEN InitialSteps(block_limit) ELSE steps
    /\ pc' = "loop"
    /\ UNCHANGED <<scan, head, events, block_limit, windows, responses,
                   blockNumberCalls, failedCall, ret, exceptScan>>

\* get_block_number().await? returned Err
GetBlockNumberErr ==
    /\ pc = "await_head"
    /\ failedCall' = "getBlockNumber"
    /\ ret' = ErrReturn(result)
    /\ pc' = "failed"
    /\ UNCHANGED <<scan, head, events, block_limit, current_block, steps, result,
                   windows, responses, blockNumberCalls, exceptScan>>

\* while current_block > 0 { ... get_logs(&filter) is issued
IssueGetLogs ==
    /\ pc = "loop"
    /\ current_block > 0
    /\ windows' = Append(windows, Filter(scan, current_block))
    /\ pc' = "await_logs"
    /\ UNCHANGED <<scan, head, events, block_limit, current_block, steps, result,
                   responses, blockNumberCalls, failedCall, ret, exceptScan>>

\* get_logs(&filter).await returned Ok: append, move the cursor, count the step
GetLogsOk ==
    /\ pc = "await_logs"
    /\ responses' = responses + 1
    /\ result' = VecAppend(result, GetLogs(events, windows[Len(windows)]))
    /\ current_block' = NextBlock(scan, current_block)
    /\ IF scan = GET_ALL_EVENTS
       THEN /\ steps' = steps - 1
            /\ IF steps' = 0
               THEN pc' = "done" /\ ret' = OkReturn(result')
               ELSE pc' = "loop" /\ ret' = ret
       ELSE /\ steps' = steps
            /\ pc' = "loop"
            /\ ret' = ret
    /\ UNCHANGED <<scan, head, events, block_limit, windows, blockNumberCalls,
                   failedCall, exceptScan>>

\* get_logs(&filter).await? returned Err
GetLogsErr ==
    /\ pc = "await_logs"
    /\ responses' = responses + 1
    /\ failedCall' = "getLogs"
    /\ ret' = ErrReturn(result)
    /\ pc' = "failed"
    /\ UNCHANGED <<scan, head, events, block_limit, current_block, steps, result,
                   windows, blockNumberCalls, exceptScan>>

\* the while condition is false: Ok(result)
ReturnOk ==
    /\ pc = "loop"
    /\ current_block = 0
    /\ ret' = OkReturn(result)
    /\ pc' = "done"
    /\ UNCHANGED <<scan, head, events, block_limit, current_block, steps, result,
                   windows, responses, blockNumberCalls, failedCall, exceptScan>>

NextScan ==
    \/ CallGetBlockNumber
    \/ GetBlockNumberOk
    \/ GetBlockNumberErr
    \/ IssueGetLogs
    \/ GetLogsOk
    \/ GetLogsErr
    \/ ReturnOk

SpecScan == InitScan /\ [][NextScan]_vars

\* The scan is one sequential task: it takes its next step whenever it has
\* one, and every remote call it awaits returns (Ok or Err).
SpecScanFair == SpecScan /\ WF_vars(NextScan)

----------------------------------------------------------------------------
(* compute_merkle_tree.                                                    *)
(* A B256 value is a sequence of tokens.  keccak256 is modelled as a       *)
(* collision-free function: it brackets its payload, so two hashes are     *)
(* equal exactly when their payloads are, and a hash differs from every    *)
(* transaction id.                                                         *)

\* alloy::primitives::keccak256
Keccak256(payload) == <<"keccak(">> \o payload \o <<")">>

\* [left.as_slice(), right.as_slice()].concat()
Concat(left, right) == left \o right

\* the tx_id of a decoded NewPriorityRequest: an opaque 32-byte value
TxId(n) == <<ToString(n)>>

\* PriorityTransaction { index, tx_id, .. }: the fields compute_merkle_tree reads
PriorityTransaction(i, id) == [index |-> i, tx_id |-> id]

\* usize::next_power_of_two: the least power of two >= n; 1 for n = 0
RECURSIVE PowerOfTwoFrom(_, _)
PowerOfTwoFrom(n, p) == IF p >= n THEN p ELSE PowerOfTwoFrom(n, 2 * p)
NextPowerOfTwo_ZeroForZero(n) == IF n = 0 THEN 0 ELSE PowerOfTwoFrom(n, 1)
NextPowerOfTwo(n) == PowerOfTwoFrom(n, 1)

\* let size = txs.len().next_power_of_two()
LeafCount(list) == NextPowerOfTwo(Len(list))

\* vec![keccak256(""); size]
NewLeaves(n) == [i \in 1..n |-> Keccak256(<<>>)]

\* leaves[tx.index as usize] = tx.tx_id  (panics when the index is out of bounds)
InBounds(lv, tx) == tx.index < Len(lv)
FirstFree(lv) ==
    IF \E i \in 1..Len(lv) : lv[i] = Keccak256(<<>>)
    THEN CHOOSE i \in 1..Len(lv) :
             lv[i] = Keccak256(<<>>) /\ \A j \in 1..(i - 1) : lv[j] # Keccak256(<<>>)
    ELSE Len(lv)
StoreLeaf_InArrivalOrder(lv, tx) == [lv EXCEPT ![FirstFree(lv)] = tx.tx_id]
StoreLeaf_Hashed(lv, tx) == [lv EXCEPT ![tx.index + 1] = Keccak256(tx.tx_id)]
StoreLeaf(lv, tx) == [lv EXCEPT ![tx.index + 1] = tx.tx_id]

\* one round of the while loop: parents[i] = keccak256(leaves[2i] || leaves[2i + 1])
Parents_Swapped(lv) ==
    [i \in 1..(Len(lv) \div 2) |-> Keccak256(Concat(lv[2 * i], lv[2 * i - 1]))]
Parents(lv) ==
    [i \in 1..(Len(lv) \div 2) |-> Keccak256(Concat(lv[2 * i - 1], lv[2 * i]))]

\* compute_merkle_tree as a function of its argument:
\* [panic |-> TRUE] or [panic |-> FALSE, root |-> the returned B256]
RECURSIVE FillLeaves(_, _, _)
FillLeaves(lv, list, k) ==
    IF k > Len(list) THEN [panic |-> FALSE, leaves |-> lv]
    ELSE IF ~InBounds(lv, list[k]) THEN [panic |-> TRUE, leaves |-> lv]
    ELSE FillLeaves(StoreLeaf(lv, list[k]), list, k + 1)
RECURSIVE ReduceLeaves(_)
ReduceLeaves(lv) == IF Len(lv) > 1 THEN ReduceLeaves(Parents(lv)) ELSE lv
ComputeMerkleTree(list) ==
    LET f == FillLeaves(NewLeaves(LeafCount(list)), list, 1)
    IN  IF f.panic \/ ReduceLeaves(f.leaves) = <<>>
        THEN [panic |-> TRUE, root |-> <<>>]
        ELSE [panic |-> FALSE, root |-> ReduceLeaves(f.leaves)[1]]

\* The argument lists the model runs compute_merkle_tree on.
Indices == 0..MaxIndex
ShortTxs == {PriorityTransaction(i, TxId(n)) : i \in Indices, n \in {1, 2}}
ShortLists == UNION {[1..n -> ShortTxs] : n \in 0..MaxTxs}
\* N events with indices 0..N-1 and pairwise different ids, ascending or descending
Ascending(n) == [k \in 1..n |-> PriorityTransaction(k - 1, TxId(k))]
Descending(n) == [k \in 1..n |-> PriorityTransaction(n - k, TxId(n - k + 1))]
DenseLists == {Ascending(n) : n \in 0..MaxDense} \cup {Descending(n) : n \in 0..MaxDense}

InitMerkle ==
    /\ txs \in ShortLists \cup DenseLists
    /\ mpc = "call"
    /\ size = 0
    /\ leaves = <<>>
    /\ filled = 0
    /\ reductions = 0
    /\ root = <<>>
    /\ NoChain
    /\ ScanIdle
    /\ VerifyIdle
    /\ MainIdle
    /\ AssetIdle
    /\ BalancesIdle
    /\ DetailsIdle
    /\ DetectIdle
    /\ HubIdle
    /\ JoinIdle
    /\ SnapIdle

\* let size = ...; let mut leaves = vec![keccak256(""); size]
MerkleAlloc ==
    /\ mpc = "call"
    /\ size' = LeafCount(txs)
    /\ leaves' = NewLeaves(size')
    /\ mpc' = "fill"
    /\ UNCHANGED <<txs, filled, reductions, root, exceptMerkle>>

\* for tx in txs { leaves[tx.index as usize] = tx.tx_id }, one iteration
MerkleFill ==
    /\ mpc = "fill"
    /\ filled < Len(txs)
    /\ InBounds(leaves, txs[filled + 1])
    /\ leaves' = StoreLeaf(leaves, txs[filled + 1])
    /\ filled' = filled + 1
    /\ UNCHANGED <<txs, mpc, size, reductions, root, exceptMerkle>>

\* the same iteration when tx.index is out of bounds: the index panics
MerkleFillPanic ==
    /\ mpc = "fill"
    /\ filled < Len(txs)
    /\ ~InBounds(leaves, txs[filled + 1])
    /\ mpc' = "panic"
    /\ UNCHANGED <<txs, size, leaves, filled, reductions, root, exceptMerkle>>

\* while leaves.len() > 1 { ... leaves = parents }, one iteration
MerkleReduce ==
    /\ \/ mpc = "fill" /\ filled = Len(txs)
       \/ mpc = "reduce"
    /\ Len(leaves) > 1
    /\ leaves' = Parents(leaves)
    /\ reductions' = reductions + Len(leaves) \div 2
    /\ mpc' = "reduce"
    /\ UNCHANGED <<txs, size, filled, root, exceptMerkle>>

\* *leaves.get(0).unwrap()
MerkleReturn ==
    /\ \/ mpc = "fill" /\ filled = Len(txs)
       \/ mpc = "reduce"
    /\ Len(leaves) <= 1
    /\ IF Len(leaves) = 1
       THEN root' = leaves[1] /\ mpc' = "done"
       ELSE root' = root /\ mpc' = "panic"
    /\ UNCHANGED <<txs, size, leaves, filled, reductions, exceptMerkle>>

NextMerkle ==
    \/ MerkleAlloc
    \/ MerkleFill
    \/ MerkleFillPanic
    \/ MerkleReduce
    \/ MerkleReturn

SpecMerkle == InitMerkle /\ [][NextMerkle]_vars

----------------------------------------------------------------------------
(* fetch_all_priority_transactions and verify_priority_root_hash.          *)

\* PriorityTransaction::from(Log): the mailbox numbers its NewPriorityRequest
\* events 0, 1, 2, ... in emission order, each with its own transaction id
DecodeLog(evs, b) ==
    LET txId == Cardinality({e \in evs : e < b})
    IN  PriorityTransaction(txId, TxId(txId + 1))
\* events.into_iter().map(|x| PriorityTransaction::from(x)).collect()
DecodeAll(evs, logs) == [k \in 1..Len(logs) |-> DecodeLog(evs, logs[k])]

\* eyre::bail!("Priority transactions are only available on L1")
FetchBail ==
    [ok |-> FALSE, error |-> "Priority transactions are only available on L1",
     onchain |-> <<>>, computed |-> <<>>]
\* eyre::bail!("Priority tree root hash invalid: {} vs {}", priority_tree_root, computed)
RootMismatch(onchain, computed) ==
    [ok |-> FALSE, error |-> "Priority tree root hash invalid",
     onchain |-> onchain, computed |-> computed]
VerifyOk == [ok |-> TRUE, error |-> "none", onchain |-> <<>>, computed |-> <<>>]
\* if compute_merkle_tree(&txs) != self.priority_tree_root { bail } Ok(())
Compare(onchain, computed) ==
    IF computed # onchain THEN RootMismatch(onchain, computed) ELSE VerifyOk

\* The on-chain roots the model draws from: the roots of the queues of zero,
\* one and two requests, and a root of no queue.
OnChainRoots ==
    {Keccak256(<<>>), TxId(1), Keccak256(Concat(TxId(1), TxId(2))), TxId(7)}
FetchHeights == {k * BLOCKS_PER_CALL + r : k \in 0..MaxFetchWindows,
                                           r \in Residues(BLOCKS_PER_CALL)}

InitVerify ==
    /\ head \in FetchHeights
    /\ events \in SUBSET EventBlocks(head)
    /\ sequencer_type \in {"L1", "L2"}
    /\ priority_tree_root \in OnChainRoots
    /\ fpc = "idle"
    /\ fetched = <<>>
    /\ vpc = "call"
    /\ vret = [ok |-> FALSE, error |-> "none", onchain |-> <<>>, computed |-> <<>>]
    /\ ScanIdle
    /\ MerkleIdle
    /\ MainIdle
    /\ AssetIdle
    /\ BalancesIdle
    /\ DetailsIdle
    /\ DetectIdle
    /\ HubIdle
    /\ JoinIdle
    /\ SnapIdle

\* let txs = self.get_priority_transactions(sequencer).await?  (the call)
VerifyCall ==
    /\ vpc = "call"
    /\ vpc' = "fetching"
    /\ fpc' = "call"
    /\ UNCHANGED <<sequencer_type, priority_tree_root, fetched, vret, scanVars, merkleVars, exceptVerify>>

\* SequencerType::L1 => get_all_events(sequencer, address, SIGNATURE_HASH, 5000)
FetchOnL1 ==
    /\ fpc = "call"
    /\ sequencer_type = "L1"
    /\ scan' = GET_ALL_EVENTS
    /\ block_limit' = PRIORITY_BLOCK_LIMIT
    /\ pc' = "call"
    /\ fpc' = "scanning"
    /\ UNCHANGED <<head, events, current_block, steps, result, windows, responses,
                   blockNumberCalls, failedCall, ret, merkleVars,
                   sequencer_type, priority_tree_root, fetched, vpc, vret, exceptVerify>>

\* SequencerType::L2(_) => eyre::bail!(..)
FetchOnL2 ==
    /\ fpc = "call"
    /\ sequencer_type # "L1"
    /\ fpc' = "bailed"
    /\ UNCHANGED <<sequencer_type, priority_tree_root, fetched, vpc, vret,
                   scanVars, merkleVars, exceptVerify>>

\* get_all_events(..).await.unwrap() on Ok; the events are decoded; Ok(txs)
FetchDecode ==
    /\ fpc = "scanning"
    /\ pc = "done"
    /\ fetched' = DecodeAll(events, ret.logs)
    /\ fpc' = "returned"
    /\ UNCHANGED <<sequencer_type, priority_tree_root, vpc, vret, scanVars, merkleVars, exceptVerify>>

\* get_all_events(..).await.unwrap() on Err: the unwrap panics
FetchUnwrapPanic ==
    /\ fpc = "scanning"
    /\ pc = "failed"
    /\ fpc' = "panicked"
    /\ vpc' = "panicked"
    /\ UNCHANGED <<sequencer_type, priority_tree_root, fetched, vret, scanVars, merkleVars, exceptVerify>>

\* get_priority_transactions(sequencer).await? on Err
VerifyFetchErr ==
    /\ vpc = "fetching"
    /\ fpc = "bailed"
    /\ vret' = FetchBail
    /\ vpc' = "returned"
    /\ UNCHANGED <<sequencer_type, priority_tree_root, fpc, fetched, scanVars, merkleVars, exceptVerify>>

\* compute_merkle_tree(&txs) is called
VerifyCompute ==
    /\ vpc = "fetching"
    /\ fpc = "returned"
    /\ txs' = fetched
    /\ mpc' = "call"
    /\ vpc' = "computing"
    /\ UNCHANGED <<size, leaves, filled, reductions, root, scanVars,
                   sequencer_type, priority_tree_root, fpc, fetched, vret, exceptVerify>>

\* if compute_merkle_tree(&txs) != self.priority_tree_root { bail } Ok(())
VerifyCompare ==
    /\ vpc = "computing"
    /\ mpc = "done"
    /\ vret' = Compare(priority_tree_root, root)
    /\ vpc' = "returned"
    /\ UNCHANGED <<sequencer_type, priority_tree_root, fpc, fetched, scanVars, merkleVars, exceptVerify>>

\* compute_merkle_tree panicked
VerifyComputePanic ==
    /\ vpc = "computing"
    /\ mpc = "panic"
    /\ vpc' = "panicked"
    /\ UNCHANGED <<sequencer_type, priority_tree_root, fpc, fetched, vret,
                   scanVars, merkleVars, exceptVerify>>

NextVerify ==
    \/ VerifyCall
    \/ FetchOnL1
    \/ FetchOnL2
    \/ CallGetBlockNumber
    \/ GetBlockNumberOk
    \/ GetBlockNumberErr
    \/ IssueGetLogs
    \/ GetLogsOk
    \/ GetLogsErr
    \/ ReturnOk
    \/ FetchDecode
    \/ FetchUnwrapPanic
    \/ VerifyFetchErr
    \/ VerifyCompute
    \/ MerkleAlloc
    \/ MerkleFill
    \/ MerkleFillPanic
    \/ MerkleReduce
    \/ MerkleReturn
    \/ VerifyCompare
    \/ VerifyComputePanic

SpecVerify == InitVerify /\ [][NextVerify]_vars

----------------------------------------------------------------------------
(* main: the per-chain loops over bridgehub.known_chains and the report.   *)
(* The results of the calls main makes (get_state_transition,              *)
(* verify_priority_root_hash, get_priority_transactions, write_report) are *)
(* chosen by the environment; each action is one branch of main's code.    *)

\* ChainDiagnostics::new(chain_id)
NewChainDiagnostics(c) ==
    [chain_id |-> c,
     state_transition |-> "None",
     state_transition_error |-> "None",
     priority_tree_verified |-> "None",
     priority_tree_note |-> "None",
     priority_transactions |-> "empty",
     priority_tx_error |-> "None"]

\* chain_reports.insert(*chain, diagnostics)
Insert(map, c, d) == [k \in DOMAIN map \cup {c} |-> IF k = c THEN d ELSE map[k]]

Chain == sorted_chains[cursor]
InLoop(at) == mainpc = at /\ cursor <= Len(sorted_chains)

InitMain ==
    /\ network \in {"Local", "Mainnet", "Testnet", "Stage"}
    /\ sorted_chains \in {[k \in 1..n |-> k] : n \in 0..MaxChains}
    /\ cursor = 1
    /\ mainpc = "chains"
    /\ chain_reports = <<>>
    /\ state_transitions = {}
    /\ verified = [k \in 1..Len(sorted_chains) |-> "not_run"]
    /\ exitCause = "none"
    /\ report = [written |-> FALSE, chains |-> <<>>]
    /\ NoChain
    /\ ScanIdle
    /\ MerkleIdle
    /\ VerifyIdle
    /\ AssetIdle
    /\ BalancesIdle
    /\ DetailsIdle
    /\ DetectIdle
    /\ HubIdle
    /\ JoinIdle
    /\ SnapIdle

\* args.network.as_ref().unwrap_or(&Network::Local) == &Network::Local, where
\* network is the value after unwrap_or
IsLocal_Always(n) == TRUE
IsLocal(n) == n = "Local"

\* get_state_transition(*chain) returned Err: the error is recorded
ChainStateTransitionErr ==
    /\ InLoop("chains")
    /\ chain_reports' =
           Insert(chain_reports, Chain,
                  [NewChainDiagnostics(Chain) EXCEPT !.state_transition_error = "Some(err)"])
    /\ cursor' = cursor + 1
    /\ UNCHANGED <<network, sorted_chains, mainpc, state_transitions, verified,
                   exitCause, report, exceptMain>>

\* Ok(st), Network::Local, verify_priority_root_hash returned Ok
ChainVerified ==
    /\ InLoop("chains")
    /\ IsLocal(network)
    /\ verified' = [verified EXCEPT ![Chain] = "ok"]
    /\ chain_reports' =
           Insert(chain_reports, Chain,
                  [NewChainDiagnostics(Chain) EXCEPT !.state_transition = "Some(report)",
                                                     !.priority_tree_verified = "Some(true)"])
    /\ state_transitions' = state_transitions \cup {Chain}
    /\ cursor' = cursor + 1
    /\ UNCHANGED <<network, sorted_chains, mainpc, exitCause, report, exceptMain>>

\* Ok(st), Network::Local, verify_priority_root_hash returned Err (the roots
\* differ, or the fetch failed): `?` returns it from main
ChainVerifyErr ==
    /\ InLoop("chains")
    /\ IsLocal(network)
    /\ \E e \in {"mismatch", "fetch_err"} : verified' = [verified EXCEPT ![Chain] = e]
    /\ mainpc' = "returned_err"
    /\ exitCause' = "verify_priority_root_hash"
    /\ UNCHANGED <<network, sorted_chains, cursor, chain_reports, state_transitions,
                   report, exceptMain>>

\* Ok(st), Network::Local, verify_priority_root_hash panicked
ChainVerifyPanic ==
    /\ InLoop("chains")
    /\ IsLocal(network)
    /\ verified' = [verified EXCEPT ![Chain] = "panic"]
    /\ mainpc' = "panicked"
    /\ exitCause' = "verify_priority_root_hash"
    /\ UNCHANGED <<network, sorted_chains, cursor, chain_reports, state_transitions,
                   report, exceptMain>>

\* Ok(st), another network: the verification is skipped
ChainSkipped ==
    /\ InLoop("chains")
    /\ ~IsLocal(network)
    /\ chain_reports' =
           Insert(chain_reports, Chain,
                  [NewChainDiagnostics(Chain) EXCEPT !.state_transition = "Some(report)",
                                                     !.priority_tree_note = "Some(skipped)"])
    /\ state_transitions' = state_transitions \cup {Chain}
    /\ cursor' = cursor + 1
    /\ UNCHANGED <<network, sorted_chains, mainpc, verified, exitCause, report, exceptMain>>

\* the first loop is over; the gateway chains are printed
GatewayChains ==
    /\ mainpc = "chains"
    /\ cursor > Len(sorted_chains)
    /\ mainpc' = "priority_txs"
    /\ cursor' = 1
    /\ UNCHANGED <<network, sorted_chains, chain_reports, state_transitions, verified,
                   exitCause, report, exceptMain>>

\* gateway_bridgehub.get_state_transition(*chain).await? returned Err
GatewayChainsErr ==
    /\ mainpc = "chains"
    /\ cursor > Len(sorted_chains)
    /\ mainpc' = "returned_err"
    /\ exitCause' = "gateway get_state_transition"
    /\ UNCHANGED <<network, sorted_chains, cursor, chain_reports, state_transitions,
                   verified, report, exceptMain>>

\* state_transitions has the chain and get_priority_transactions returned Ok
PriorityTxsListed ==
    /\ InLoop("priority_txs")
    /\ Chain \in state_transitions
    /\ chain_reports' =
           IF Chain \in DOMAIN chain_reports
           THEN [chain_reports EXCEPT ![Chain].priority_transactions = "sorted by index"]
           ELSE chain_reports
    /\ cursor' = cursor + 1
    /\ UNCHANGED <<network, sorted_chains, mainpc, state_transitions, verified,
                   exitCause, report, exceptMain>>

\* state_transitions has the chain and get_priority_transactions returned Err
PriorityTxsErr ==
    /\ InLoop("priority_txs")
    /\ Chain \in state_transitions
    /\ mainpc' = "returned_err"
    /\ exitCause' = "get_priority_transactions"
    /\ UNCHANGED <<network, sorted_chains, cursor, chain_reports, state_transitions,
                   verified, report, exceptMain>>

\* state_transitions has the chain and get_priority_transactions panicked
PriorityTxsPanic ==
    /\ InLoop("priority_txs")
    /\ Chain \in state_transitions
    /\ mainpc' = "panicked"
    /\ exitCause' = "get_priority_transactions"
    /\ UNCHANGED <<network, sorted_chains, cursor, chain_reports, state_transitions,
                   verified, report, exceptMain>>

\* state_transitions lacks the chain: "State transition details not available"
PriorityTxsUnavailable ==
    /\ InLoop("priority_txs")
    /\ Chain \notin state_transitions
    /\ chain_reports' =
           IF Chain \in DOMAIN chain_reports
           THEN [chain_reports EXCEPT ![Chain].priority_tx_error = "Some(not available)"]
           ELSE chain_reports
    /\ cursor' = cursor + 1
    /\ UNCHANGED <<network, sorted_chains, mainpc, state_transitions, verified,
                   exitCause, report, exceptMain>>

\* write_report(&diagnostics, ..) returned Ok: main returns Ok(())
WriteReport ==
    /\ mainpc = "priority_txs"
    /\ cursor > Len(sorted_chains)
    /\ report' = [written |-> TRUE, chains |-> chain_reports]
    /\ mainpc' = "returned_ok"
    /\ UNCHANGED <<network, sorted_chains, cursor, chain_reports, state_transitions,
                   verified, exitCause, exceptMain>>

\* write_report(&diagnostics, ..)? returned Err
WriteReportErr ==
    /\ mainpc = "priority_txs"
    /\ cursor > Len(sorted_chains)
    /\ mainpc' = "returned_err"
    /\ exitCause' = "write_report"
    /\ UNCHANGED <<network, sorted_chains, cursor, chain_reports, state_transitions,
                   verified, report, exceptMain>>

NextMain ==
    \/ ChainStateTransitionErr
    \/ ChainVerified
    \/ ChainVerifyErr
    \/ ChainVerifyPanic
    \/ ChainSkipped
    \/ GatewayChains
    \/ GatewayChainsErr
    \/ PriorityTxsListed
    \/ PriorityTxsErr
    \/ PriorityTxsPanic
    \/ PriorityTxsUnavailable
    \/ WriteReport
    \/ WriteReportErr

SpecMain == InitMain /\ [][NextMain]_vars

----------------------------------------------------------------------------
(* RegisteredAsset::new (l1_asset_router.rs).                              *)

\* Addresses the three address arguments range over.
Addresses == {"0xA", "0xB", "0xC"}
AssetIds == {"asset1", "asset2", "asset3"}
\* address!("0000000000000000000000000000000000000001")
ETH_TOKEN_ADDRESS == "0x01"
\* What tokenAddress(asset_id) and ERC20::name() can return.
TokenAddresses == {ETH_TOKEN_ADDRESS, "0xT1", "0xT2"}
TokenNames == {"DAI", "USDC"}

\* the AssetHandler variants
NoHandler == [variant |-> "none", address |-> "-", token_name |-> "-"]
NativeTokenVaultHandler(a, n) ==
    [variant |-> "NativeTokenVault", address |-> a, token_name |-> n]
BridgehubHandler == [variant |-> "Bridgehub", address |-> "-", token_name |-> "-"]
OtherHandler(a) == [variant |-> "Other", address |-> a, token_name |-> "-"]

\* the arm `match deployment_tracker` takes: the guards are tried in order
MatchArm_BridgehubFirst(dt, vault, root_hub) ==
    IF dt = root_hub THEN "bridgehub"
    ELSE IF dt = vault THEN "native_token_vault"
    ELSE "other"
MatchArm(dt, vault, root_hub) ==
    IF dt = vault THEN "native_token_vault"
    ELSE IF dt = root_hub THEN "bridgehub"
    ELSE "other"

InitAsset ==
    /\ asset_id \in AssetIds
    /\ deployment_tracker \in Addresses
    /\ native_token_vault \in Addresses
    /\ bridgehub \in Addresses
    /\ apc = "match"
    /\ token_address = "-"
    /\ handler = NoHandler
    /\ assetReads = <<>>
    /\ NoChain
    /\ ScanIdle
    /\ MerkleIdle
    /\ VerifyIdle
    /\ MainIdle
    /\ BalancesIdle
    /\ DetailsIdle
    /\ DetectIdle
    /\ HubIdle
    /\ JoinIdle
    /\ SnapIdle

\* dt == native_token_vault: tokenAddress(asset_id) is called
AssetMatchVault ==
    /\ apc = "match"
    /\ MatchArm(deployment_tracker, native_token_vault, bridgehub) = "native_token_vault"
    /\ assetReads' = Append(assetReads, "tokenAddress")
    /\ apc' = "tokenAddress"
    /\ UNCHANGED <<asset_id, deployment_tracker, native_token_vault, bridgehub,
                   token_address, handler, exceptAsset>>

\* dt == bridgehub => AssetHandler::Bridgehub
AssetMatchBridgehub ==
    /\ apc = "match"
    /\ MatchArm(deployment_tracker, native_token_vault, bridgehub) = "bridgehub"
    /\ handler' = BridgehubHandler
    /\ apc' = "returned"
    /\ UNCHANGED <<asset_id, deployment_tracker, native_token_vault, bridgehub,
                   token_address, assetReads, exceptAsset>>

\* _ => AssetHandler::Other(deployment_tracker)
AssetMatchOther ==
    /\ apc = "match"
    /\ MatchArm(deployment_tracker, native_token_vault, bridgehub) = "other"
    /\ handler' = OtherHandler(deployment_tracker)
    /\ apc' = "returned"
    /\ UNCHANGED <<asset_id, deployment_tracker, native_token_vault, bridgehub,
                   token_address, assetReads, exceptAsset>>

\* tokenAddress(asset_id) returned the ETH address: token_name = "ETH"
AssetTokenIsEth ==
    /\ apc = "tokenAddress"
    /\ token_address' = ETH_TOKEN_ADDRESS
    /\ handler' = NativeTokenVaultHandler(ETH_TOKEN_ADDRESS, "ETH")
    /\ apc' = "returned"
    /\ UNCHANGED <<asset_id, deployment_tracker, native_token_vault, bridgehub,
                   assetReads, exceptAsset>>

\* tokenAddress(asset_id) returned another address: ERC20::name() is called
AssetTokenIsErc20 ==
    /\ apc = "tokenAddress"
    /\ \E a \in TokenAddresses \ {ETH_TOKEN_ADDRESS} : token_address' = a
    /\ assetReads' = Append(assetReads, "name")
    /\ apc' = "name"
    /\ UNCHANGED <<asset_id, deployment_tracker, native_token_vault, bridgehub,
                   handler, exceptAsset>>

\* tokenAddress(asset_id).call().await.unwrap() on Err
AssetTokenAddressPanic ==
    /\ apc = "tokenAddress"
    /\ apc' = "panicked"
    /\ UNCHANGED <<asset_id, deployment_tracker, native_token_vault, bridgehub,
                   token_address, handler, assetReads, exceptAsset>>

\* name() returned: AssetHandler::NativeTokenVault { address, token_name }
AssetNamed ==
    /\ apc = "name"
    /\ \E n \in TokenNames : handler' = NativeTokenVaultHandler(token_address, n)
    /\ apc' = "returned"
    /\ UNCHANGED <<asset_id, deployment_tracker, native_token_vault, bridgehub,
                   token_address, assetReads, exceptAsset>>

\* erc20_contract.name().call().await.unwrap() on Err
AssetNamePanic ==
    /\ apc = "name"
    /\ apc' = "panicked"
    /\ UNCHANGED <<asset_id, deployment_tracker, native_token_vault, bridgehub,
                   token_address, handler, assetReads, exceptAsset>>

NextAsset ==
    \/ AssetMatchVault
    \/ AssetMatchBridgehub
    \/ AssetMatchOther
    \/ AssetTokenIsEth
    \/ AssetTokenIsErc20
    \/ AssetTokenAddressPanic
    \/ AssetNamed
    \/ AssetNamePanic

SpecAsset == InitAsset /\ [][NextAsset]_vars

----------------------------------------------------------------------------
(* Bridgehub::get_chain_balances (bridgehub.rs), with RegisteredAsset::name *)
(* and L1AssetRouter::chain_balance (l1_asset_router.rs).                   *)

\* get_human_name_for(asset_id): an adjective_noun pair picked by the hash of
\* the id; two ids can get the same pair.
HumanName(id) == IF id = "asset3" THEN "blue_cat" ELSE "red_fox"

\* RegisteredAsset::name
Name(id, h) ==
    IF h.variant = "NativeTokenVault"
    THEN <<h.token_name, "-", HumanName(id)>>
    ELSE <<HumanName(id)>>

\* `if let AssetHandler::NativeTokenVault(_) = &x.handler`
IsVaultBacked_Any(h) == TRUE
IsVaultBacked(h) == h.variant = "NativeTokenVault"

\* the assets the filter_map lets through
FilteredAssets(assets) == {id \in DOMAIN assets : IsVaultBacked(assets[id])}

\* The handlers the registered assets of the router are drawn from.
Handlers ==
    {NativeTokenVaultHandler("0xT1", "DAI"), NativeTokenVaultHandler(ETH_TOKEN_ADDRESS, "ETH"),
     BridgehubHandler, OtherHandler("0xA")}
ChainIds == {1, 2}
Amounts == {0, 7}

BalancesErr(e) == [ok |-> FALSE, error |-> e, table |-> <<>>]
BalancesOk(t) == [ok |-> TRUE, error |-> "none", table |-> t]

InitBalances ==
    /\ asset_router \in
           {[kind |-> k, registered_assets |-> a] :
                k \in {"L1", "L2"},
                a \in UNION {[ids -> Handlers] : ids \in SUBSET AssetIds}}
    /\ chain_id \in ChainIds
    /\ bpc = "match"
    /\ pending = {}
    /\ balanceQueries = <<>>
    /\ balances = <<>>
    /\ bret = BalancesErr("none")
    /\ NoChain
    /\ ScanIdle
    /\ MerkleIdle
    /\ VerifyIdle
    /\ MainIdle
    /\ AssetIdle
    /\ DetailsIdle
    /\ DetectIdle
    /\ HubIdle
    /\ JoinIdle
    /\ SnapIdle

\* AssetRouter::L1(router): the filtered iterator over registered_assets
BalancesOnL1 ==
    /\ bpc = "match"
    /\ asset_router.kind = "L1"
    /\ pending' = FilteredAssets(asset_router.registered_assets)
    /\ bpc' = "for"
    /\ UNCHANGED <<asset_router, chain_id, balanceQueries, balances, bret, exceptBalances>>

\* AssetRouter::L2(_) => eyre::bail!("Not implemented yet")
BalancesOnL2 ==
    /\ bpc = "match"
    /\ asset_router.kind = "L2"
    /\ bret' = BalancesErr("Not implemented yet")
    /\ bpc' = "returned"
    /\ UNCHANGED <<asset_router, chain_id, pending, balanceQueries, balances, exceptBalances>>

\* the loop takes the next asset (HashMap order) and calls router.chain_balance
BalancesQuery ==
    /\ bpc = "for"
    /\ \E id \in pending :
           /\ pending' = pending \ {id}
           /\ balanceQueries' = Append(balanceQueries, id)
    /\ bpc' = "chainBalance"
    /\ UNCHANGED <<asset_router, chain_id, balances, bret, exceptBalances>>

\* chainBalance(chain_id, asset_id) returned: result.insert(asset.name(), amount)
BalancesInsert ==
    /\ bpc = "chainBalance"
    /\ LET id == balanceQueries[Len(balanceQueries)]
       IN  \E amount \in Amounts :
               balances' = Insert(balances, Name(id, asset_router.registered_assets[id]), amount)
    /\ bpc' = "for"
    /\ UNCHANGED <<asset_router, chain_id, pending, balanceQueries, bret, exceptBalances>>

\* chainBalance(chain_id, asset_id).call().await.unwrap() on Err
BalancesQueryPanic ==
    /\ bpc = "chainBalance"
    /\ bpc' = "panicked"
    /\ UNCHANGED <<asset_router, chain_id, pending, balanceQueries, balances, bret,
                   exceptBalances>>

\* the loop is over: Ok(result)
BalancesReturn ==
    /\ bpc = "for"
    /\ pending = {}
    /\ bret' = BalancesOk(balances)
    /\ bpc' = "returned"
    /\ UNCHANGED <<asset_router, chain_id, pending, balanceQueries, balances, exceptBalances>>

NextBalances ==
    \/ BalancesOnL1
    \/ BalancesOnL2
    \/ BalancesQuery
    \/ BalancesInsert
    \/ BalancesQueryPanic
    \/ BalancesReturn

SpecBalances == InitBalances /\ [][NextBalances]_vars

----------------------------------------------------------------------------
(* Bridgehub::get_chain_details (bridgehub.rs).                            *)

\* Address::ZERO
ZERO_ADDRESS == "0x00"

\* the reads of get_chain_details, in the order the code issues them
DetailsCalls ==
    <<"stateTransitionManager", "baseToken", "getHyperchain", "validatorTimelock",
      "stmAssetIdFromChainId">>
\* the local each read is bound to
DetailsField(call) ==
    CASE call = "stateTransitionManager" -> "stm_address"
      [] call = "baseToken" -> "base_token_address"
      [] call = "getHyperchain" -> "st_address"
      [] call = "validatorTimelock" -> "validator_timelock_address"
      [] call = "stmAssetIdFromChainId" -> "stm_asset_id"
DetailsFields == {DetailsField(DetailsCalls[k]) : k \in 1..Len(DetailsCalls)}

\* the read handled by `match .. { Ok(..) => .., Err(_) => Address::ZERO }`
\* rather than by `?`
IsOptional_None(call) == FALSE
IsOptional(call) == call = "baseToken"

\* the call issued after `call`, "return" after the last one
CallAfter(call) ==
    LET k == CHOOSE i \in 1..Len(DetailsCalls) : DetailsCalls[i] = call
    IN  IF k = Len(DetailsCalls) THEN "return" ELSE DetailsCalls[k + 1]

\* What a read can answer: an error or a value.
ReadAnswers == {"Err", "0xA", "0xB"}

NoDetails == [f \in DetailsFields |-> "unset"]
DetailsErr(call) == [ok |-> FALSE, error |-> call, details |-> <<>>]
DetailsOk(d) == [ok |-> TRUE, error |-> "none", details |-> d]

InitDetails ==
    /\ chain_answers \in [{DetailsCalls[k] : k \in 1..Len(DetailsCalls)} -> ReadAnswers]
    /\ dpc = "call"
    /\ details = NoDetails
    /\ detailsReads = <<>>
    /\ dret = DetailsErr("none")
    /\ NoChain
    /\ ScanIdle
    /\ MerkleIdle
    /\ VerifyIdle
    /\ MainIdle
    /\ AssetIdle
    /\ BalancesIdle
    /\ DetectIdle
    /\ HubIdle
    /\ JoinIdle
    /\ SnapIdle

\* the next read is issued
DetailsCall ==
    /\ dpc = "call"
    /\ LET call == IF detailsReads = <<>> THEN DetailsCalls[1]
                   ELSE CallAfter(detailsReads[Len(detailsReads)])
       IN  /\ call # "return"
           /\ detailsReads' = Append(detailsReads, call)
           /\ dpc' = call
    /\ UNCHANGED <<chain_answers, details, dret, exceptDetails>>

\* the read returned Ok: its value is bound to the local
DetailsReadOk ==
    /\ dpc \in DOMAIN chain_answers
    /\ chain_answers[dpc] # "Err"
    /\ details' = [details EXCEPT ![DetailsField(dpc)] = chain_answers[dpc]]
    /\ dpc' = "call"
    /\ UNCHANGED <<chain_answers, detailsReads, dret, exceptDetails>>

\* baseToken returned Err: Err(_) => Address::ZERO
DetailsReadErrZero ==
    /\ dpc \in DOMAIN chain_answers
    /\ chain_answers[dpc] = "Err"
    /\ IsOptional(dpc)
    /\ details' = [details EXCEPT ![DetailsField(dpc)] = ZERO_ADDRESS]
    /\ dpc' = "call"
    /\ UNCHANGED <<chain_answers, detailsReads, dret, exceptDetails>>

\* a read followed by `?` returned Err: get_chain_details returns it
DetailsReadErr ==
    /\ dpc \in DOMAIN chain_answers
    /\ chain_answers[dpc] = "Err"
    /\ ~IsOptional(dpc)
    /\ dret' = DetailsErr(dpc)
    /\ dpc' = "returned"
    /\ UNCHANGED <<chain_answers, details, detailsReads, exceptDetails>>

\* Ok(BridgehubChainDetails { .. })
DetailsReturn ==
    /\ dpc = "call"
    /\ detailsReads # <<>>
    /\ CallAfter(detailsReads[Len(detailsReads)]) = "return"
    /\ dret' = DetailsOk(details)
    /\ dpc' = "returned"
    /\ UNCHANGED <<chain_answers, details, detailsReads, exceptDetails>>

NextDetails ==
    \/ DetailsCall
    \/ DetailsReadOk
    \/ DetailsReadErrZero
    \/ DetailsReadErr
    \/ DetailsReturn

SpecDetails == InitDetails /\ [][NextDetails]_vars

----------------------------------------------------------------------------
(* detect_sequencer (sequencer.rs).                                        *)

\* SequencerType::L1 and SequencerType::L2(L2SequencerInfo { .. })
TypeL1 == [kind |-> "L1", bridgehub_address |-> "-", l1_chain_id |-> "-"]
TypeL2(a, c) == [kind |-> "L2", bridgehub_address |-> a, l1_chain_id |-> c]

\* the arm `match get_bridgehub_address(rpc_url).await` takes
ProbeArm_AlwaysOk(answer) == "Ok"
ProbeArm(answer) == IF answer = "Err" THEN "Err" ELSE "Ok"

\* What the endpoint can answer.
Endpoints ==
    [port_active : BOOLEAN,
     url_parses : BOOLEAN,
     chain_id : {"Err", "9", "270"},
     block_number : {"Err", "100"},
     bridgehub_address : {"Err", "0xA", "0xB"},
     l1_chain_id : {"Err", "9"}]

NoSequencer == [chain_id |-> "unset", latest_block |-> "unset", sequencer_type |-> "unset"]
DetectErr(call) == [ok |-> FALSE, error |-> call, sequencer |-> <<>>]
DetectOk(sq) == [ok |-> TRUE, error |-> "none", sequencer |-> sq]

InitDetect ==
    /\ endpoint \in Endpoints
    /\ qpc = "is_port_active"
    /\ sequencer = NoSequencer
    /\ detectCalls = <<>>
    /\ qret = DetectErr("none")
    /\ NoChain
    /\ ScanIdle
    /\ MerkleIdle
    /\ VerifyIdle
    /\ MainIdle
    /\ AssetIdle
    /\ BalancesIdle
    /\ DetailsIdle
    /\ HubIdle
    /\ JoinIdle
    /\ SnapIdle

\* !is_port_active(rpc_url): bail
DetectPortNotActive ==
    /\ qpc = "is_port_active"
    /\ ~endpoint.port_active
    /\ detectCalls' = Append(detectCalls, "is_port_active")
    /\ qret' = DetectErr("is_port_active")
    /\ qpc' = "returned"
    /\ UNCHANGED <<endpoint, sequencer, exceptDetect>>

\* the port is active and rpc_url parses: get_chain_id is called
DetectPortActive ==
    /\ qpc = "is_port_active"
    /\ endpoint.port_active
    /\ endpoint.url_parses
    /\ detectCalls' = detectCalls \o <<"is_port_active", "get_chain_id">>
    /\ qpc' = "get_chain_id"
    /\ UNCHANGED <<endpoint, sequencer, qret, exceptDetect>>

\* the port is active and rpc_url.parse()? fails
DetectUrlErr ==
    /\ qpc = "is_port_active"
    /\ endpoint.port_active
    /\ ~endpoint.url_parses
    /\ detectCalls' = Append(detectCalls, "is_port_active")
    /\ qret' = DetectErr("parse")
    /\ qpc' = "returned"
    /\ UNCHANGED <<endpoint, sequencer, exceptDetect>>

\* get_chain_id().await? -> Ok: get_block_number is called
DetectChainId ==
    /\ qpc = "get_chain_id"
    /\ endpoint.chain_id # "Err"
    /\ sequencer' = [sequencer EXCEPT !.chain_id = endpoint.chain_id]
    /\ detectCalls' = Append(detectCalls, "get_block_number")
    /\ qpc' = "get_block_number"
    /\ UNCHANGED <<endpoint, qret, exceptDetect>>

\* get_chain_id().await? -> Err
DetectChainIdErr ==
    /\ qpc = "get_chain_id"
    /\ endpoint.chain_id = "Err"
    /\ qret' = DetectErr("get_chain_id")
    /\ qpc' = "returned"
    /\ UNCHANGED <<endpoint, sequencer, detectCalls, exceptDetect>>

\* get_block_number().await? -> Ok: get_bridgehub_address is called
DetectBlockNumber ==
    /\ qpc = "get_block_number"
    /\ endpoint.block_number # "Err"
    /\ sequencer' = [sequencer EXCEPT !.latest_block = endpoint.block_number]
    /\ detectCalls' = Append(detectCalls, "get_bridgehub_address")
    /\ qpc' = "get_bridgehub_address"
    /\ UNCHANGED <<endpoint, qret, exceptDetect>>

\* get_block_number().await? -> Err
DetectBlockNumberErr ==
    /\ qpc = "get_block_number"
    /\ endpoint.block_number = "Err"
    /\ qret' = DetectErr("get_block_number")
    /\ qpc' = "returned"
    /\ UNCHANGED <<endpoint, sequencer, detectCalls, exceptDetect>>

\* Err(_) => SequencerType::L1; Ok(Sequencer { .. })
DetectL1 ==
    /\ qpc = "get_bridgehub_address"
    /\ ProbeArm(endpoint.bridgehub_address) = "Err"
    /\ sequencer' = [sequencer EXCEPT !.sequencer_type = TypeL1]
    /\ qret' = DetectOk(sequencer')
    /\ qpc' = "returned"
    /\ UNCHANGED <<endpoint, detectCalls, exceptDetect>>

\* Ok(bridgehub_address) => get_l1_chain_id is called
DetectProbeOk ==
    /\ qpc = "get_bridgehub_address"
    /\ ProbeArm(endpoint.bridgehub_address) = "Ok"
    /\ detectCalls' = Append(detectCalls, "get_l1_chain_id")
    /\ qpc' = "get_l1_chain_id"
    /\ UNCHANGED <<endpoint, sequencer, qret, exceptDetect>>

\* get_l1_chain_id(rpc_url).await? -> Ok: SequencerType::L2; Ok(Sequencer { .. })
DetectL2 ==
    /\ qpc = "get_l1_chain_id"
    /\ endpoint.l1_chain_id # "Err"
    /\ sequencer' = [sequencer EXCEPT
                         !.sequencer_type = TypeL2(endpoint.bridgehub_address, endpoint.l1_chain_id)]
    /\ qret' = DetectOk(sequencer')
    /\ qpc' = "returned"
    /\ UNCHANGED <<endpoint, detectCalls, exceptDetect>>

\* get_l1_chain_id(rpc_url).await? -> Err
DetectL1ChainIdErr ==
    /\ qpc = "get_l1_chain_id"
    /\ endpoint.l1_chain_id = "Err"
    /\ qret' = DetectErr("get_l1_chain_id")
    /\ qpc' = "returned"
    /\ UNCHANGED <<endpoint, sequencer, detectCalls, exceptDetect>>

NextDetect ==
    \/ DetectPortNotActive
    \/ DetectPortActive
    \/ DetectUrlErr
    \/ DetectChainId
    \/ DetectChainIdErr
    \/ DetectBlockNumber
    \/ DetectBlockNumberErr
    \/ DetectL1
    \/ DetectProbeOk
    \/ DetectL2
    \/ DetectL1ChainIdErr

SpecDetect == InitDetect /\ [][NextDetect]_vars

----------------------------------------------------------------------------
(* Bridgehub::new (bridgehub.rs) and L2AssetRouter::new                    *)
(* (l2_asset_router.rs).                                                   *)

\* At most MaxManagers StateTransitionManagerAdded logs are on the chain.
ManagerAddresses == {"0xM1", "0xM2"}
ManagerEvents == UNION {[1..n -> ManagerAddresses] : n \in 0..MaxManagers}

\* Bridgehub::new's `address` and what sharedBridge() and stmDeployer() answer
HUB_ADDRESS == "0xH"
SHARED_BRIDGE == "0xS"
STM_DEPLOYER == "0xD"

\* a remote call: the method and the contract it is sent to
Call(method, to) == [method |-> method, to |-> to]

\* Option<T>
None == [some |-> FALSE, value |-> <<>>]
Some(v) == [some |-> TRUE, value |-> v]

\* the remote reads of L2AssetRouter::new (the l1AssetRouter() read is
\* commented out)
L2AssetRouterReads_L1Router(address) == <<Call("l1AssetRouter", address)>>
L2AssetRouterReads(address) == <<>>

\* L2AssetRouter { address }
L2AssetRouter(address) == [kind |-> "L2", address |-> address]
\* L1AssetRouter { address, native_token_vault, registered_assets }
L1AssetRouter(address) ==
    [kind |-> "L1", address |-> address, native_token_vault |-> "0xV",
     registered_assets |-> "registered"]

\* StateTransitionManager::new(sequencer, address), one per log
StateTransitionManagers(evs) == [k \in 1..Len(evs) |-> [address |-> evs[k]]]
ManagerCalls(evs) == [k \in 1..Len(evs) |-> Call("StateTransitionManager::new", evs[k])]

NoBridgehub ==
    [address |-> HUB_ADDRESS, shared_bridge |-> "unset", known_chains |-> None,
     stms |-> None, stm_deployer |-> "unset", asset_router |-> <<>>]
HubErr(call) == [ok |-> FALSE, error |-> call, bridgehub |-> <<>>]
HubOk(b) == [ok |-> TRUE, error |-> "none", bridgehub |-> b]

InitHub ==
    /\ hub_sequencer_type \in {"L1", "L2"}
    /\ autodetect_chains \in BOOLEAN
    /\ manager_events \in ManagerEvents
    /\ hpc = "get_code_at"
    /\ hub = NoBridgehub
    /\ hubCalls = <<Call("get_code_at", HUB_ADDRESS)>>
    /\ hret = HubErr("none")
    /\ NoChain
    /\ ScanIdle
    /\ MerkleIdle
    /\ VerifyIdle
    /\ MainIdle
    /\ AssetIdle
    /\ BalancesIdle
    /\ DetailsIdle
    /\ DetectIdle
    /\ JoinIdle
    /\ SnapIdle

\* a read followed by `?` returned Err, or the code at `address` is empty
HubReadErr ==
    /\ hpc \in {"get_code_at", "sharedBridge", "detect_chains", "stmDeployer", "get_all_events"}
    /\ hret' = HubErr(hpc)
    /\ hpc' = "returned"
    /\ UNCHANGED <<hub_sequencer_type, autodetect_chains, manager_events, hub, hubCalls,
                   exceptHub>>

\* get_code_at returned code: sharedBridge() is called
HubCode ==
    /\ hpc = "get_code_at"
    /\ hubCalls' = Append(hubCalls, Call("sharedBridge", HUB_ADDRESS))
    /\ hpc' = "sharedBridge"
    /\ UNCHANGED <<hub_sequencer_type, autodetect_chains, manager_events, hub, hret,
                   exceptHub>>

\* sharedBridge() returned; autodetect_chains: detect_chains is called
HubDetectChains ==
    /\ hpc = "sharedBridge"
    /\ autodetect_chains
    /\ hub' = [hub EXCEPT !.shared_bridge = SHARED_BRIDGE]
    /\ hubCalls' = Append(hubCalls, Call("detect_chains", HUB_ADDRESS))
    /\ hpc' = "detect_chains"
    /\ UNCHANGED <<hub_sequencer_type, autodetect_chains, manager_events, hret, exceptHub>>

\* sharedBridge() returned; no autodetect: known_chains = None, stmDeployer() is called
HubNoDetectChains ==
    /\ hpc = "sharedBridge"
    /\ ~autodetect_chains
    /\ hub' = [hub EXCEPT !.shared_bridge = SHARED_BRIDGE]
    /\ hubCalls' = Append(hubCalls, Call("stmDeployer", HUB_ADDRESS))
    /\ hpc' = "stmDeployer"
    /\ UNCHANGED <<hub_sequencer_type, autodetect_chains, manager_events, hret, exceptHub>>

\* detect_chains returned Ok: known_chains = Some(..), stmDeployer() is called
HubChainsDetected ==
    /\ hpc = "detect_chains"
    /\ hub' = [hub EXCEPT !.known_chains = Some("chains")]
    /\ hubCalls' = Append(hubCalls, Call("stmDeployer", HUB_ADDRESS))
    /\ hpc' = "stmDeployer"
    /\ UNCHANGED <<hub_sequencer_type, autodetect_chains, manager_events, hret, exceptHub>>

\* stmDeployer() returned; SequencerType::L1 => get_all_events(StateTransitionManagerAdded)
HubEnumerateManagers ==
    /\ hpc = "stmDeployer"
    /\ hub_sequencer_type = "L1"
    /\ hub' = [hub EXCEPT !.stm_deployer = STM_DEPLOYER]
    /\ hubCalls' = Append(hubCalls, Call("get_all_events(StateTransitionManagerAdded)", HUB_ADDRESS))
    /\ hpc' = "get_all_events"
    /\ UNCHANGED <<hub_sequencer_type, autodetect_chains, manager_events, hret, exceptHub>>

\* stmDeployer() returned; SequencerType::L2(_) => None
HubNoManagers ==
    /\ hpc = "stmDeployer"
    /\ hub_sequencer_type = "L2"
    /\ hub' = [hub EXCEPT !.stm_deployer = STM_DEPLOYER, !.stms = None]
    /\ hpc' = "asset_router"
    /\ UNCHANGED <<hub_sequencer_type, autodetect_chains, manager_events, hubCalls, hret,
                   exceptHub>>

\* get_all_events returned the logs: StateTransitionManager::new for each, join_all
HubJoinManagers ==
    /\ hpc = "get_all_events"
    /\ hubCalls' = hubCalls \o ManagerCalls(manager_events)
    /\ hpc' = "join_all"
    /\ UNCHANGED <<hub_sequencer_type, autodetect_chains, manager_events, hub, hret,
                   exceptHub>>

\* join_all(stms) returned: Some(stms)
HubManagers ==
    /\ hpc = "join_all"
    /\ hub' = [hub EXCEPT !.stms = Some(StateTransitionManagers(manager_events))]
    /\ hpc' = "asset_router"
    /\ UNCHANGED <<hub_sequencer_type, autodetect_chains, manager_events, hubCalls, hret,
                   exceptHub>>

\* a read of one StateTransitionManager::new failed: unwrap() panics
HubManagerPanic ==
    /\ hpc = "join_all"
    /\ manager_events # <<>>
    /\ hpc' = "panicked"
    /\ UNCHANGED <<hub_sequencer_type, autodetect_chains, manager_events, hub, hubCalls,
                   hret, exceptHub>>

\* SequencerType::L1 => L1AssetRouter::new(sequencer, shared_bridge) is called
HubRouterL1Call ==
    /\ hpc = "asset_router"
    /\ hub_sequencer_type = "L1"
    /\ hubCalls' = Append(hubCalls, Call("L1AssetRouter::new", hub.shared_bridge))
    /\ hpc' = "L1AssetRouter::new"
    /\ UNCHANGED <<hub_sequencer_type, autodetect_chains, manager_events, hub, hret,
                   exceptHub>>

\* L1AssetRouter::new built the router: Ok(Bridgehub { .. })
HubRouterL1 ==
    /\ hpc = "L1AssetRouter::new"
    /\ hub' = [hub EXCEPT !.asset_router = L1AssetRouter(hub.shared_bridge)]
    /\ hret' = HubOk(hub')
    /\ hpc' = "returned"
    /\ UNCHANGED <<hub_sequencer_type, autodetect_chains, manager_events, hubCalls,
                   exceptHub>>

\* L1AssetRouter::new panicked on a failed read, or returned Err: no
\* L1AssetRouter to wrap, no Bridgehub
HubRouterL1Fails ==
    /\ hpc = "L1AssetRouter::new"
    /\ \/ hpc' = "panicked" /\ hret' = hret
       \/ hpc' = "returned" /\ hret' = HubErr("L1AssetRouter::new")
    /\ UNCHANGED <<hub_sequencer_type, autodetect_chains, manager_events, hub, hubCalls,
                   exceptHub>>

\* SequencerType::L2(_) => L2AssetRouter::new(sequencer, shared_bridge); Ok(Bridgehub { .. })
HubRouterL2 ==
    /\ hpc = "asset_router"
    /\ hub_sequencer_type = "L2"
    /\ hubCalls' = hubCalls \o L2AssetRouterReads(hub.shared_bridge)
    /\ hub' = [hub EXCEPT !.asset_router = L2AssetRouter(hub.shared_bridge)]
    /\ hret' = HubOk(hub')
    /\ hpc' = "returned"
    /\ UNCHANGED <<hub_sequencer_type, autodetect_chains, manager_events, exceptHub>>

NextHub ==
    \/ HubReadErr
    \/ HubCode
    \/ HubDetectChains
    \/ HubNoDetectChains
    \/ HubChainsDetected
    \/ HubEnumerateManagers
    \/ HubNoManagers
    \/ HubJoinManagers
    \/ HubManagers
    \/ HubManagerPanic
    \/ HubRouterL1Call
    \/ HubRouterL1
    \/ HubRouterL1Fails
    \/ HubRouterL2

SpecHub == InitHub /\ [][NextHub]_vars

----------------------------------------------------------------------------
(* join_all in Bridgehub::new (bridgehub.rs) and in L1AssetRouter::new     *)
(* (l1_asset_router.rs): one future per decoded log, polled concurrently.  *)
(* A task advances by one remote read at a time; the reads of different    *)
(* tasks interleave in every order.                                        *)

\* the native token vault and the bridgehub L1AssetRouter::new has read
ROUTER_VAULT == "0xA"
ROUTER_BRIDGE_HUB == "0xB"

\* the decoded logs: manager addresses, or (asset id, deployment tracker)
ManagerLogs ==
    UNION {[1..n -> [address : ManagerAddresses]] : n \in 0..MaxTasks}
RegistrationLogs ==
    UNION {[1..n -> [asset_id : {"asset1", "asset2"},
                     deployment_tracker : {ROUTER_VAULT, "0xC"}]] : n \in 0..MaxTasks}

\* the remote reads one task makes: ChainTypeManager::new reads BRIDGE_HUB,
\* admin, owner and ctmAssetId; RegisteredAsset::new reads tokenAddress and
\* name in the vault arm and nothing in the other arms
TaskReads(parent, input) ==
    IF parent = "Bridgehub" THEN 4
    ELSE IF MatchArm(input.deployment_tracker, ROUTER_VAULT, ROUTER_BRIDGE_HUB)
                = "native_token_vault"
         THEN 2
         ELSE 0

\* the child a task returns
TaskChild(parent, input) ==
    IF parent = "Bridgehub" THEN [address |-> input.address]
    ELSE [asset_id |-> input.asset_id,
          handler |-> MatchArm(input.deployment_tracker, ROUTER_VAULT, ROUTER_BRIDGE_HUB),
          tracker |-> input.deployment_tracker]

\* join_all(futures).await: the outputs in the order of the futures
JoinAll_InCompletionOrder(results, done) == [k \in 1..Len(done) |-> results[done[k]]]
JoinAll(results, done) == [k \in 1..Len(done) |-> results[k]]

\* HashMap::from_iter(list.map(|elem| (elem.asset_id, elem))): a later pair
\* replaces an earlier pair of the same key
Positions(list, id) == {k \in 1..Len(list) : list[k].asset_id = id}
HashMapFromIter_FirstWins(list) ==
    [id \in {list[k].asset_id : k \in 1..Len(list)} |->
        list[CHOOSE k \in Positions(list, id) : \A j \in Positions(list, id) : k <= j]]
HashMapFromIter(list) ==
    [id \in {list[k].asset_id : k \in 1..Len(list)} |->
        list[CHOOSE k \in Positions(list, id) : \A j \in Positions(list, id) : k >= j]]

Tasks == 1..Len(join_inputs)
Completed == {task_done[k] : k \in 1..Len(task_done)}

InitJoin ==
    /\ \/ join_parent = "Bridgehub" /\ join_inputs \in ManagerLogs
       \/ join_parent = "L1AssetRouter" /\ join_inputs \in RegistrationLogs
    /\ task_reads = [k \in 1..Len(join_inputs) |-> 0]
    /\ task_results = [k \in 1..Len(join_inputs) |-> <<>>]
    /\ task_done = <<>>
    /\ jpc = "join_all"
    /\ children = <<>>
    /\ NoChain
    /\ ScanIdle
    /\ MerkleIdle
    /\ VerifyIdle
    /\ MainIdle
    /\ AssetIdle
    /\ BalancesIdle
    /\ DetailsIdle
    /\ DetectIdle
    /\ HubIdle
    /\ SnapIdle

\* a remote read of one task returned Ok
TaskRead ==
    /\ jpc = "join_all"
    /\ \E t \in Tasks \ Completed :
           /\ task_reads[t] < TaskReads(join_parent, join_inputs[t])
           /\ task_reads' = [task_reads EXCEPT ![t] = @ + 1]
    /\ UNCHANGED <<join_parent, join_inputs, task_results, task_done, jpc, children,
                   exceptJoin>>

\* a remote read of one task returned Err: .unwrap() panics
TaskReadPanic ==
    /\ jpc = "join_all"
    /\ \E t \in Tasks \ Completed :
           task_reads[t] < TaskReads(join_parent, join_inputs[t])
    /\ jpc' = "panicked"
    /\ UNCHANGED <<join_parent, join_inputs, task_reads, task_results, task_done, children,
                   exceptJoin>>

\* one task has made all its reads and returns its child
TaskReturn ==
    /\ jpc = "join_all"
    /\ \E t \in Tasks \ Completed :
           /\ task_reads[t] = TaskReads(join_parent, join_inputs[t])
           /\ task_results' = [task_results EXCEPT ![t] = TaskChild(join_parent, join_inputs[t])]
           /\ task_done' = Append(task_done, t)
    /\ UNCHANGED <<join_parent, join_inputs, task_reads, jpc, children, exceptJoin>>

\* every task has returned: join_all returns, Some(stms) is built
JoinManagers ==
    /\ jpc = "join_all"
    /\ join_parent = "Bridgehub"
    /\ Completed = Tasks
    /\ children' = JoinAll(task_results, task_done)
    /\ jpc' = "constructed"
    /\ UNCHANGED <<join_parent, join_inputs, task_reads, task_results, task_done,
                   exceptJoin>>

\* every task has returned: join_all returns, registered_assets is built
JoinRegisteredAssets ==
    /\ jpc = "join_all"
    /\ join_parent = "L1AssetRouter"
    /\ Completed = Tasks
    /\ children' = HashMapFromIter(JoinAll(task_results, task_done))
    /\ jpc' = "constructed"
    /\ UNCHANGED <<join_parent, join_inputs, task_reads, task_results, task_done,
                   exceptJoin>>

NextJoin ==
    \/ TaskRead
    \/ TaskReadPanic
    \/ TaskReturn
    \/ JoinManagers
    \/ JoinRegisteredAssets

SpecJoin == InitJoin /\ [][NextJoin]_vars

----------------------------------------------------------------------------
(* Bridgehub::new on the base layer, against a chain that produces blocks  *)
(* while the reads are made.  Every read is made at the latest block: the  *)
(* contract reads are `.call()` without a block id, and every scan         *)
(* (detect_chains, get_all_events) starts with its own get_block_number.   *)
(* The logs of a scan lie at or below the head it read, so what a scan     *)
(* returns is the chain's content at that head.                            *)

\* the parts of the Bridgehub, in the order they are read, and the registry
\* event each of them is read from
SnapshotParts == <<"shared_bridge", "known_chains", "stms", "registered_assets">>
PartEvent(part) ==
    CASE part = "shared_bridge" -> "setSharedBridge"
      [] part = "known_chains" -> "NewChain"
      [] part = "stms" -> "StateTransitionManagerAdded"
      [] part = "registered_assets" -> "AssetHandlerRegisteredInitial"
RegistryEvents == {PartEvent(SnapshotParts[k]) : k \in 1..Len(SnapshotParts)}

\* the blocks at or below `h` that carry the event of `part`
BlocksOf(chain, part, h) == {b \in 1..h : chain[b] = PartEvent(part)}

\* what a read of `part` returns at head `h`: the pointer set last for
\* shared_bridge, the set of logs for the scanned parts
PartAt(chain, part, h) ==
    IF part = "shared_bridge"
    THEN {b \in BlocksOf(chain, part, h) : \A c \in BlocksOf(chain, part, h) : c <= b}
    ELSE BlocksOf(chain, part, h)

\* the part read after `part`, "return" after the last one
PartAfter(part) ==
    LET k == CHOOSE i \in 1..Len(SnapshotParts) : SnapshotParts[i] = part
    IN  IF k = Len(SnapshotParts) THEN "returned" ELSE SnapshotParts[k + 1]

InitSnapshot ==
    /\ chain_blocks \in UNION {[1..n -> RegistryEvents \cup {"none"}] : n \in 0..1}
    /\ snpc = SnapshotParts[1]
    /\ snapshot = [p \in {} |-> {}]
    /\ read_heads = [p \in {} |-> 0]
    /\ NoChain
    /\ ScanIdle
    /\ MerkleIdle
    /\ VerifyIdle
    /\ MainIdle
    /\ AssetIdle
    /\ BalancesIdle
    /\ DetailsIdle
    /\ DetectIdle
    /\ HubIdle
    /\ JoinIdle

\* the next part is read at the chain's current head
ReadPart ==
    /\ snpc \notin {"idle", "returned"}
    /\ snapshot' = Insert(snapshot, snpc, PartAt(chain_blocks, snpc, Len(chain_blocks)))
    /\ read_heads' = Insert(read_heads, snpc, Len(chain_blocks))
    /\ snpc' = PartAfter(snpc)
    /\ UNCHANGED <<chain_blocks, exceptSnap>>

\* the chain produces a block while Bridgehub::new is running
NewBlock ==
    /\ snpc \notin {"idle", "returned"}
    /\ Len(chain_blocks) < MaxBlocks
    /\ \E e \in RegistryEvents \cup {"none"} : chain_blocks' = Append(chain_blocks, e)
    /\ UNCHANGED <<snpc, snapshot, read_heads, exceptSnap>>

NextSnapshot ==
    \/ ReadPart
    \/ NewBlock

SpecSnapshot == InitSnapshot /\ [][NextSnapshot]_vars

----------------------------------------------------------------------------
(* Claims about the scans (checked under SpecScan).                        *)

Windows == {windows[i] : i \in 1..Len(windows)}
InWindow(b, w) == w.from_block <= b /\ b <= w.to_block
Covered(b) == \E i \in 1..Len(windows) : InWindow(b, windows[i])
InFlight == Len(windows) - responses
\* A depth limit that is at least the chain height cannot bind.
FullHistory == scan # GET_ALL_EVENTS \/ block_limit >= head
Returned == pc = "done"

\* C1: a full-history scan of a chain of height H >= 1 with window W issues
\* pairwise disjoint windows whose union is exactly [1, H], ceil(H / W) of them.
C1_FullHistoryPartition ==
    (Returned /\ head >= 1 /\ FullHistory) =>
        /\ \A i, j \in 1..Len(windows) :
               i # j => \A b \in windows[i].from_block..windows[i].to_block :
                            ~InWindow(b, windows[j])
        /\ \A b \in 1..head : Covered(b)
        /\ \A i \in 1..Len(windows) :
               \A b \in windows[i].from_block..windows[i].to_block : b \in 1..head
        /\ Len(windows) = CeilDiv(head, BlocksPerCall(scan))

C1_Witness ==
    /\ Returned /\ FullHistory
    /\ scan = GET_ALL_EVENTS
    /\ Len(windows) = 4
    /\ head % BLOCKS_PER_CALL # 0

\* C2 as stated: get_all_events issues min(ceil(H / W), ceil(D / W) + 1) windows.
C2_CeilWindowCount ==
    (Returned /\ scan = GET_ALL_EVENTS) =>
        Len(windows) = Min(CeilDiv(head, BLOCKS_PER_CALL),
                           CeilDiv(block_limit, BLOCKS_PER_CALL) + 1)

\* C2 amended: get_all_events issues min(ceil(H / W), floor(D / W) + 1) windows,
\* for every D >= 0.
C2_FloorWindowCount ==
    (Returned /\ scan = GET_ALL_EVENTS) =>
        Len(windows) = Min(CeilDiv(head, BLOCKS_PER_CALL),
                           block_limit \div BLOCKS_PER_CALL + 1)

C2_Witness ==
    /\ Returned /\ scan = GET_ALL_EVENTS
    /\ block_limit % BLOCKS_PER_CALL # 0
    /\ Len(windows) = block_limit \div BLOCKS_PER_CALL + 1
    /\ Len(windows) < CeilDiv(head, BLOCKS_PER_CALL)
    /\ Len(windows) >= 2

\* C3: a scan with depth limit D >= 1 from head H >= 1 covers the most recent
\* D blocks: every block of [max(1, H - D + 1), H] lies in an issued window.
C3_RecentBlocksCovered ==
    (Returned /\ scan = GET_ALL_EVENTS /\ head >= 1 /\ block_limit >= 1) =>
        \A b \in Max(1, head - block_limit + 1)..head : Covered(b)

C3_Witness ==
    /\ Returned /\ scan = GET_ALL_EVENTS
    /\ block_limit >= 1 /\ block_limit < head
    /\ block_limit % BLOCKS_PER_CALL # 0
    /\ Len(windows) < CeilDiv(head, BLOCKS_PER_CALL)
    /\ ~Covered(1)

\* C4: every issued window satisfies 1 <= from_block <= to_block <= H.
C4_WindowBounds ==
    \A i \in 1..Len(windows) :
        /\ 1 <= windows[i].from_block
        /\ windows[i].from_block <= windows[i].to_block
        /\ windows[i].to_block <= head

\* the final window was clamped to block 1: it is shorter than the window size
C4_Witness ==
    /\ Returned /\ Len(windows) >= 2
    /\ windows[Len(windows)].from_block = 1
    /\ windows[Len(windows)].to_block < BlocksPerCall(scan)

\* C5: windows are issued in strictly descending order, the first ending at
\* the head, each later one ending right below its predecessor's from_block,
\* and a window is issued only when every earlier get_logs has come back.
C5_SequentialDescending ==
    /\ Len(windows) >= 1 => windows[1].to_block = head
    /\ \A i \in 2..Len(windows) :
           windows[i].to_block = windows[i - 1].from_block - 1
    /\ InFlight \in {0, 1}
    /\ InFlight = 1 <=> pc = "await_logs"

C5_Witness ==
    /\ pc = "await_logs" /\ Len(windows) = 3 /\ responses = 2

\* C6: a failed getBlockNumber or getLogs ends the scan at once with that
\* error: no call is issued afterwards, no call is issued twice, and the
\* returned value carries none of the logs collected before.
C6_FailFast ==
    /\ failedCall # "none" <=> pc = "failed"
    /\ pc = "failed" =>
           /\ ~ret.ok /\ ret.logs = <<>>
           /\ ~ENABLED NextScan
           /\ blockNumberCalls = 1
           /\ InFlight = 0
           /\ Cardinality(Windows) = Len(windows)
           /\ failedCall = "getBlockNumber" => windows = <<>>
    /\ pc = "done" => ret.ok /\ ret.logs = result

C6_Witness ==
    /\ pc = "failed" /\ failedCall = "getLogs"
    /\ Len(windows) >= 2
    /\ result # <<>>

----------------------------------------------------------------------------
(* Claims about compute_merkle_tree (checked under SpecMerkle).            *)

IndexSet(list) == {list[k].index : k \in 1..Len(list)}
MaxOf(S) == CHOOSE m \in S : \A x \in S : x <= m
\* the events carry exactly the indices 0..N-1, N the number of events
Dense(list) ==
    /\ IndexSet(list) = 0..(Len(list) - 1)
    /\ \A j, k \in 1..Len(list) : list[j].index = list[k].index => j = k
DistinctIndices(list) ==
    \A j, k \in 1..Len(list) : list[j].index = list[k].index => j = k
\* the id of the last event of the list that carries index i
LastIdAt(list, i) ==
    list[MaxOf({k \in 1..Len(list) : list[k].index = i})].tx_id
Allocated == mpc \in {"fill", "reduce", "done", "panic"}
LeavesFilled == mpc = "fill" /\ filled = Len(txs)
IsPowerOfTwo(p) == \E e \in 0..p : 2 ^ e = p
Permuted(list) == {[k \in 1..Len(list) |-> list[f[k]]] : f \in Permutations(1..Len(list))}

\* the leaf count the specification asks for: next_power_of_two(max index + 1), at least 1
LeafCountByMaxIndex(list) ==
    IF list = <<>> THEN 1 ELSE NextPowerOfTwo(MaxOf(IndexSet(list)) + 1)

\* C7: for every list of decoded events the leaf array has length
\* next_power_of_two(max index + 1) (minimum 1), starts out filled with
\* keccak256(""), and every event's id is stored at its index.
C7_LeafArrayByMaxIndex ==
    /\ Allocated => size = LeafCountByMaxIndex(txs)
    /\ mpc # "panic"
    /\ LeavesFilled =>
           \A i \in 0..(size - 1) :
               leaves[i + 1] = IF i \in IndexSet(txs) THEN LastIdAt(txs, i)
                               ELSE Keccak256(<<>>)

\* the bottom-up fold written top-down: the root of a power-of-two array is
\* the hash of the roots of its two halves
RECURSIVE ReferenceRoot(_)
ReferenceRoot(lv) ==
    IF Len(lv) = 1 THEN lv[1]
    ELSE LET half == Len(lv) \div 2
         IN  Keccak256(ReferenceRoot(SubSeq(lv, 1, half))
                       \o ReferenceRoot(SubSeq(lv, half + 1, Len(lv))))
\* the leaf array C8 describes for N dense events
DenseLeaves(list) ==
    LET p == CHOOSE q \in 1..(2 * Len(list) + 1) :
                 IsPowerOfTwo(q) /\ q >= Len(list) /\ (q = 1 \/ q \div 2 < Len(list))
    IN  [i \in 1..p |-> IF i <= Len(list) THEN LastIdAt(list, i - 1)
                        ELSE Keccak256(<<>>)]

\* C8: for N events with indices 0..N-1 the leaf array has the least power of
\* two >= N entries (4 for N = 3, 8 for N = 5), holds event i's id at i < N
\* and keccak256("") at i >= N, and the root is the pairwise fold of it.
C8_DenseLeavesAndRoot ==
    Dense(txs) =>
        /\ mpc # "panic"
        /\ Allocated =>
               /\ size = Len(DenseLeaves(txs))
               /\ Len(txs) = 3 => size = 4
               /\ Len(txs) = 5 => size = 8
        /\ LeavesFilled => leaves = DenseLeaves(txs)
        /\ mpc = "done" => root = ReferenceRoot(DenseLeaves(txs))

C8_Witness ==
    /\ mpc = "done" /\ Dense(txs) /\ Len(txs) = 5 /\ size = 8
    /\ txs[1].index = 4
    /\ reductions = 7

\* C9 as stated: for events with indices drawn from [0, N) the root is the
\* same for every permutation of the list.
C9_RootOrderIndependent ==
    (mpc = "done" /\ IndexSet(txs) \subseteq 0..(Len(txs) - 1)) =>
        \A other \in Permuted(txs) :
            ComputeMerkleTree(other) = [panic |-> FALSE, root |-> root]

\* C9 amended: for N events with pairwise distinct indices drawn from [0, N)
\* the root is the same for every permutation of the list.
C9_RootOrderIndependentDistinct ==
    (mpc = "done" /\ IndexSet(txs) \subseteq 0..(Len(txs) - 1) /\ DistinctIndices(txs)) =>
        \A other \in Permuted(txs) :
            ComputeMerkleTree(other) = [panic |-> FALSE, root |-> root]

C9_Witness ==
    /\ mpc = "done" /\ DistinctIndices(txs) /\ Len(txs) = 3
    /\ IndexSet(txs) = 0..2
    /\ txs[1].index = 2 /\ txs[2].index = 0
    /\ txs[1].tx_id # txs[2].tx_id

\* C10: with no decoded event the leaf array is the single leaf keccak256(""),
\* which is returned as the root, and no pair is hashed.
C10_EmptyQueueRoot ==
    txs = <<>> =>
        /\ Allocated => size = 1
        /\ mpc = "fill" => leaves = <<Keccak256(<<>>)>>
        /\ reductions = 0
        /\ mpc \notin {"reduce", "panic"}
        /\ mpc = "done" => root = Keccak256(<<>>)

C10_Witness ==
    /\ txs = <<>> /\ mpc = "done" /\ root = <<"keccak(", ")">>

\* C11: with exactly one decoded event, of index 0, the returned root is that
\* event's transaction id itself: no hash is applied to it.
C11_SingleEventRoot ==
    (Len(txs) = 1 /\ txs[1].index = 0) =>
        /\ Allocated => size = 1
        /\ reductions = 0
        /\ mpc \notin {"reduce", "panic"}
        /\ mpc = "done" => root = txs[1].tx_id

C11_Witness ==
    /\ Len(txs) = 1 /\ txs[1].index = 0 /\ mpc = "done"
    /\ root = TxId(2)

----------------------------------------------------------------------------
(* Claims about verify_priority_root_hash (checked under SpecVerify).      *)

VerifyEnded == vpc \in {"returned", "panicked"}

\* C12: once the events are fetched, verify_priority_root_hash returns Ok
\* exactly when the root computed from them equals the on-chain
\* priority_tree_root; otherwise it returns an error value, not a panic and
\* not Ok, that carries both the on-chain and the computed root.
C12_VerdictMatchesComparison ==
    (VerifyEnded /\ fpc = "returned") =>
        /\ vpc = "returned"
        /\ mpc = "done"
        /\ vret.ok <=> root = priority_tree_root
        /\ ~vret.ok => vret.onchain = priority_tree_root /\ vret.computed = root

\* C13: the list handed to compute_merkle_tree holds every NewPriorityRequest
\* event the contract emitted in blocks [1, head], whatever the chain height.
C13_FullHistoryFetched ==
    mpc # "idle" =>
        \A b \in events : \E k \in 1..Len(txs) : txs[k] = DecodeLog(events, b)

----------------------------------------------------------------------------
(* Claims about main (checked under SpecMain).                             *)

MainEnded == mainpc \in {"returned_ok", "returned_err", "panicked"}
ChainCheckCalls == {"verify_priority_root_hash", "get_priority_transactions"}

\* C14: a fatal error in one chain's check (state-transition read, priority
\* root verification, priority-transaction fetch) is recorded in that chain's
\* entry and does not stop the run: every known chain gets its entry and the
\* report is produced.
C14_ChainErrorsDoNotStopRun ==
    /\ exitCause \notin ChainCheckCalls
    /\ (MainEnded /\ exitCause = "none") =>
           /\ report.written
           /\ DOMAIN report.chains = {sorted_chains[k] : k \in 1..Len(sorted_chains)}

\* C15: for every chain whose priority-root verification was run, the report
\* carries the verdict: true when the roots match, false when they differ.
C15_VerdictInReport ==
    (MainEnded /\ exitCause \in {"none", "verify_priority_root_hash"}) =>
        \A c \in DOMAIN verified :
            verified[c] \in {"ok", "mismatch"} =>
                /\ report.written
                /\ c \in DOMAIN report.chains
                /\ report.chains[c].priority_tree_verified =
                       (IF verified[c] = "ok" THEN "Some(true)" ELSE "Some(false)")

----------------------------------------------------------------------------
(* Claims about RegisteredAsset::new (checked under SpecAsset).            *)

\* C16: the handler variant of a registered asset is decided by
\* (deployment tracker, vault address, registry root address) alone: it is
\* vault-backed iff tracker = vault, registry-backed iff tracker # vault and
\* tracker = registry root, and unknown otherwise, whatever tokenAddress and
\* name returned; a construction that does not return is one of the
\* vault-backed ones.
C16_ClassifiedByTriple ==
    /\ apc = "returned" =>
           /\ handler.variant = "NativeTokenVault" <=>
                  deployment_tracker = native_token_vault
           /\ handler.variant = "Bridgehub" <=>
                  (deployment_tracker # native_token_vault /\ deployment_tracker = bridgehub)
           /\ handler.variant = "Other" <=>
                  (deployment_tracker # native_token_vault /\ deployment_tracker # bridgehub)
           /\ handler.variant \in {"NativeTokenVault", "Bridgehub", "Other"}
    /\ apc \in {"tokenAddress", "name", "panicked"} =>
           deployment_tracker = native_token_vault
    /\ assetReads # <<>> => deployment_tracker = native_token_vault

\* a vault-backed asset whose tracker is also the registry root, named by the
\* token-name read
C16_Witness ==
    /\ apc = "returned"
    /\ deployment_tracker = native_token_vault
    /\ deployment_tracker = bridgehub
    /\ handler.variant = "NativeTokenVault"
    /\ handler.token_name \in TokenNames

----------------------------------------------------------------------------
(* Claims about get_chain_balances (checked under SpecBalances).           *)

VaultBackedIds ==
    {id \in DOMAIN asset_router.registered_assets :
         asset_router.registered_assets[id].variant = "NativeTokenVault"}

\* C17: every key of the table get_chain_balances returns (and of the table
\* while it is built) is the name of a vault-backed registered asset, and
\* chain_balance is called for vault-backed assets only: a registry-backed or
\* unknown-handler asset contributes neither a key nor a query.
C17_OnlyVaultBackedBalances ==
    /\ \A k \in 1..Len(balanceQueries) : balanceQueries[k] \in VaultBackedIds
    /\ \A key \in DOMAIN balances \cup DOMAIN bret.table :
           \E id \in VaultBackedIds : key = Name(id, asset_router.registered_assets[id])
    /\ bret.ok => DOMAIN bret.table = DOMAIN balances

\* a table with a key was returned by a router that also has an asset that is
\* not vault-backed
C17_Witness ==
    /\ bpc = "returned"
    /\ bret.ok
    /\ DOMAIN bret.table # {}
    /\ VaultBackedIds # DOMAIN asset_router.registered_assets

----------------------------------------------------------------------------
(* Claims about get_chain_details (checked under SpecDetails).             *)

RequiredReads ==
    {"stateTransitionManager", "getHyperchain", "validatorTimelock", "stmAssetIdFromChainId"}
RequiredReadsSucceed == \A c \in RequiredReads : chain_answers[c] # "Err"

\* C18: get_chain_details returns Ok exactly when every required read
\* (stateTransitionManager, getHyperchain, validatorTimelock,
\* stmAssetIdFromChainId) succeeds, and an error when one of them fails; when
\* it returns Ok every field of a required read is the value read, and
\* base_token_address is the value read, or the zero address when the
\* baseToken read failed.
C18_OptionalBaseToken ==
    dpc = "returned" =>
        /\ dret.ok <=> RequiredReadsSucceed
        /\ dret.ok =>
               /\ \A c \in RequiredReads : dret.details[DetailsField(c)] = chain_answers[c]
               /\ dret.details.base_token_address =
                      (IF chain_answers["baseToken"] = "Err" THEN ZERO_ADDRESS
                       ELSE chain_answers["baseToken"])
        /\ ~dret.ok => dret.error \in RequiredReads /\ chain_answers[dret.error] = "Err"

\* the baseToken read failed, the required reads succeeded, Ok was returned
C18_Witness ==
    /\ dpc = "returned"
    /\ chain_answers["baseToken"] = "Err"
    /\ RequiredReadsSucceed
    /\ dret.ok
    /\ dret.details.base_token_address = ZERO_ADDRESS

----------------------------------------------------------------------------
(* Claims about detect_sequencer (checked under SpecDetect).               *)

\* the port is reachable, the url parses, the chain-id and block-number
\* reads succeed: detect_sequencer gets to the bridgehub-address probe
ProbeReached ==
    /\ endpoint.port_active
    /\ endpoint.url_parses
    /\ endpoint.chain_id # "Err"
    /\ endpoint.block_number # "Err"
Probed == qpc = "returned" /\ ProbeReached
ProbeFailed == endpoint.bridgehub_address = "Err"

\* C19 (as stated): once the probe is reached, detect_sequencer returns an L1
\* sequencer whenever the probe fails and an L2 sequencer, with the bridgehub
\* address and the L1 chain id, whenever it succeeds; a failed probe never
\* gives an error.
C19_ProbeClassifies ==
    Probed =>
        /\ ProbeFailed => qret.ok /\ qret.sequencer.sequencer_type = TypeL1
        /\ ~ProbeFailed =>
               /\ qret.ok
               /\ qret.sequencer.sequencer_type =
                      TypeL2(endpoint.bridgehub_address, endpoint.l1_chain_id)

\* C19 (amended): as above, but a successful probe gives an L2 sequencer only
\* when the zks_L1ChainId read succeeds too; when that read fails
\* detect_sequencer returns its error.
C19_ProbeClassifiesUnlessL1ChainIdFails ==
    Probed =>
        /\ ProbeFailed =>
               /\ qret.ok
               /\ qret.sequencer.sequencer_type = TypeL1
               /\ detectCalls[Len(detectCalls)] = "get_bridgehub_address"
        /\ (~ProbeFailed /\ endpoint.l1_chain_id # "Err") =>
               /\ qret.ok
               /\ qret.sequencer.sequencer_type =
                      TypeL2(endpoint.bridgehub_address, endpoint.l1_chain_id)
        /\ (~ProbeFailed /\ endpoint.l1_chain_id = "Err") =>
               qret = DetectErr("get_l1_chain_id")
        /\ qret.ok =>
               /\ qret.sequencer.chain_id = endpoint.chain_id
               /\ qret.sequencer.latest_block = endpoint.block_number

\* a failed probe on an endpoint whose zks_L1ChainId read would fail as well:
\* an L1 sequencer is returned
C19_Witness ==
    /\ Probed
    /\ ProbeFailed
    /\ endpoint.l1_chain_id = "Err"
    /\ qret.ok
    /\ qret.sequencer.sequencer_type.kind = "L1"

----------------------------------------------------------------------------
(* Claims about Bridgehub::new (checked under SpecHub).                    *)

HubCallsOf(methods) == {k \in 1..Len(hubCalls) : hubCalls[k].method \in methods}
ManagerEnumeration ==
    {"get_all_events(StateTransitionManagerAdded)", "StateTransitionManager::new"}

\* C20: on an L2 sequencer Bridgehub::new makes no manager enumeration and
\* returns stms = None and an asset router that holds the router address and
\* nothing else, built without a remote call to that address; on an L1
\* sequencer it returns stms = Some(one manager per StateTransitionManagerAdded
\* log, in log order) and an L1 asset router built by L1AssetRouter::new.
C20_RollupLayerStub ==
    /\ hub_sequencer_type = "L2" =>
           /\ HubCallsOf(ManagerEnumeration) = {}
           /\ \A k \in 1..Len(hubCalls) : hubCalls[k].to # SHARED_BRIDGE
           /\ hpc # "idle" => hub.stms = None
    /\ (hpc = "returned" /\ hret.ok /\ hub_sequencer_type = "L2") =>
           /\ hret.bridgehub.stms = None
           /\ hret.bridgehub.asset_router.kind = "L2"
           /\ DOMAIN hret.bridgehub.asset_router = {"kind", "address"}
           /\ hret.bridgehub.asset_router.address = hret.bridgehub.shared_bridge
    /\ (hpc = "returned" /\ hret.ok /\ hub_sequencer_type = "L1") =>
           /\ hret.bridgehub.stms.some
           /\ Len(hret.bridgehub.stms.value) = Len(manager_events)
           /\ \A k \in 1..Len(manager_events) :
                  hret.bridgehub.stms.value[k].address = manager_events[k]
           /\ HubCallsOf({"get_all_events(StateTransitionManagerAdded)"}) # {}
           /\ hret.bridgehub.asset_router.kind = "L1"
           /\ HubCallsOf({"L1AssetRouter::new"}) # {}

\* Bridgehub::new returned Ok on an L2 sequencer whose chain carries
\* StateTransitionManagerAdded logs
C20_Witness ==
    /\ hpc = "returned"
    /\ hret.ok
    /\ hub_sequencer_type = "L2"
    /\ manager_events # <<>>
    /\ hret.bridgehub.asset_router = L2AssetRouter(SHARED_BRIDGE)

----------------------------------------------------------------------------
(* Claims about the join_all fan-outs (checked under SpecJoin).            *)

\* the children the decoded logs determine, whatever the tasks' schedule
ChildrenOf(parent, inputs) ==
    LET list == [k \in 1..Len(inputs) |-> TaskChild(parent, inputs[k])]
    IN  IF parent = "Bridgehub" THEN list ELSE HashMapFromIter(list)
InInputOrder == \A k \in 1..Len(task_done) : task_done[k] = k

\* C21: the per-manager and per-asset fetches make progress independently of
\* one another; the parent's children are built only after every task has
\* returned, and they are the same for every interleaving and completion
\* order of the tasks.
C21_FanOutFanIn ==
    /\ jpc = "constructed" =>
           /\ Completed = Tasks
           /\ \A t \in Tasks : task_reads[t] = TaskReads(join_parent, join_inputs[t])
           /\ children = ChildrenOf(join_parent, join_inputs)
    /\ jpc # "constructed" => children = <<>>

\* a router was built from two registrations of one asset id whose tasks
\* completed in the reverse of the list order
C21_Witness ==
    /\ jpc = "constructed"
    /\ join_parent = "L1AssetRouter"
    /\ Len(join_inputs) >= 2
    /\ join_inputs[1].asset_id = join_inputs[2].asset_id
    /\ join_inputs[1] # join_inputs[2]
    /\ ~InInputOrder

\* C26: when an asset id is registered more than once, registered_assets
\* holds one entry for that id, the registration that comes last in the list
\* of decoded logs; an earlier registration of the id is replaced.
C26_LastRegistrationWins ==
    (jpc = "constructed" /\ join_parent = "L1AssetRouter") =>
        /\ DOMAIN children = {join_inputs[k].asset_id : k \in 1..Len(join_inputs)}
        /\ \A k \in 1..Len(join_inputs) :
               (\A j \in (k + 1)..Len(join_inputs) :
                    join_inputs[j].asset_id # join_inputs[k].asset_id)
               => /\ children[join_inputs[k].asset_id].asset_id = join_inputs[k].asset_id
                  /\ children[join_inputs[k].asset_id].tracker =
                         join_inputs[k].deployment_tracker

\* an asset id registered twice with different deployment trackers: the map
\* holds the second registration
C26_Witness ==
    /\ jpc = "constructed"
    /\ join_parent = "L1AssetRouter"
    /\ Len(join_inputs) = 2
    /\ join_inputs[1].asset_id = join_inputs[2].asset_id
    /\ join_inputs[1].deployment_tracker # join_inputs[2].deployment_tracker
    /\ children[join_inputs[1].asset_id].tracker = join_inputs[2].deployment_tracker

----------------------------------------------------------------------------
(* Further claims about Bridgehub::new (checked under SpecHub).            *)

\* C22: the manager list of a constructed Bridgehub holds no two managers
\* with the same address, whatever StateTransitionManagerAdded logs the
\* chain history carries.
C22_DistinctManagers ==
    (hpc = "returned" /\ hret.ok /\ hret.bridgehub.stms.some) =>
        \A i, j \in 1..Len(hret.bridgehub.stms.value) :
            i # j => hret.bridgehub.stms.value[i].address # hret.bridgehub.stms.value[j].address

----------------------------------------------------------------------------
(* Claims about the snapshot Bridgehub::new takes (checked under           *)
(* SpecSnapshot).                                                          *)

\* C23: the parts of a resolved Bridgehub (shared-bridge pointer, known
\* chains, managers, registered assets) are the chain's content at one head,
\* also when blocks with registry events are produced during the resolve.
C23_SnapshotAtOneHead ==
    snpc = "returned" =>
        \E h \in 0..Len(chain_blocks) :
            \A p \in DOMAIN snapshot : snapshot[p] = PartAt(chain_blocks, p, h)

----------------------------------------------------------------------------
(* Claims about remote failures during the priority-transaction fetch      *)
(* (checked under SpecVerify).                                             *)

\* C24: a remote call that fails while the priority transactions are
\* fetched is handed to the caller as an error value: no unwrap panics on
\* it, neither in the fetch nor in the verification that awaits it.
C24_TransportFailureIsErrorValue ==
    failedCall # "none" => (fpc # "panicked" /\ vpc # "panicked")

----------------------------------------------------------------------------
(* Further claims about compute_merkle_tree (checked under SpecMerkle).    *)

\* C25: when two events of the list carry the same index, compute_merkle_tree
\* raises no error, the leaf of that index holds the id of the later event,
\* and the root is the one computed from the leaves so filled.
C25_DuplicateIndexLastWins ==
    ~DistinctIndices(txs) =>
        /\ mpc # "panic"
        /\ LeavesFilled =>
               \A i \in IndexSet(txs) : leaves[i + 1] = LastIdAt(txs, i)
        /\ mpc = "done" =>
               root = ReferenceRoot(FillLeaves(NewLeaves(size), txs, 1).leaves)

----------------------------------------------------------------------------
(* Further claims about get_all_events (checked under SpecScan).           *)

\* the responses of the first n windows, one after the other
RECURSIVE ResponsesInIssueOrder(_, _, _)
ResponsesInIssueOrder(evs, ws, n) ==
    IF n = 0 THEN <<>>
    ELSE ResponsesInIssueOrder(evs, ws, n - 1) \o GetLogs(evs, ws[n])
\* the windows whose response has been appended
Answered == IF pc \in {"await_logs", "failed"} /\ windows # <<>>
            THEN Len(windows) - 1 ELSE Len(windows)

\* C27: the list get_all_events builds is the concatenation of the window
\* responses in the order the windows were issued; the windows go from the
\* head downwards, so a log of a higher window stands before every log of a
\* lower window, and a result with logs of more than one window is not in
\* ascending block order.
C27_NewestWindowFirst ==
    scan = GET_ALL_EVENTS =>
        /\ result = ResponsesInIssueOrder(events, windows, Answered)
        /\ \A i, j \in 1..Len(windows) : i < j => windows[i].from_block > windows[j].to_block
        /\ (pc = "done" /\ ret.ok) =>
               /\ ret.logs = result
               /\ \A i, j \in 1..Len(ret.logs) :
                      (i < j /\ ~\E k \in 1..Len(windows) :
                                     InWindow(ret.logs[i], windows[k])
                                     /\ InWindow(ret.logs[j], windows[k]))
                      => ret.logs[i] > ret.logs[j]

\* two logs in different windows, returned newest first
C27_Witness ==
    /\ scan = GET_ALL_EVENTS /\ pc = "done" /\ ret.ok
    /\ Len(windows) >= 2
    /\ events = {1, head}
    /\ ret.logs = <<head, 1>>

----------------------------------------------------------------------------
(* Further claims about the verification (checked under SpecVerify).       *)

\* C28: for every list fetch_all_priority_transactions returns, also the
\* list of a depth-limited scan of a longer queue, each event's index is
\* smaller than the number of leaves compute_merkle_tree allocates, so no
\* write falls outside the leaf array.
C28_LeafWritesInBounds ==
    (fpc = "returned" /\ Allocated) =>
        \A k \in 1..Len(txs) : txs[k].index < size

----------------------------------------------------------------------------
(* Further claims about main (checked under SpecMain).                     *)

\* C29: the priority-root verification runs only when the network is Local.
\* On another network no verification is attempted for any chain, and every
\* chain whose state transition was read has no verdict, carries the
\* "skipped" note and is stored in state_transitions; on Local no entry
\* carries the note and every stored chain was verified.
C29_VerificationOnlyOnLocal ==
    /\ network # "Local" =>
           /\ \A c \in 1..Len(sorted_chains) : verified[c] = "not_run"
           /\ \A c \in DOMAIN chain_reports :
                  chain_reports[c].state_transition # "None" =>
                      /\ chain_reports[c].priority_tree_verified = "None"
                      /\ chain_reports[c].priority_tree_note = "Some(skipped)"
                      /\ c \in state_transitions
    /\ network = "Local" =>
           /\ \A c \in DOMAIN chain_reports :
                  chain_reports[c].priority_tree_note = "None"
           /\ \A c \in state_transitions : verified[c] = "ok"

\* a run on Mainnet that went through two chains, one of them read and
\* skipped, and wrote its report
C29_Witness ==
    /\ network = "Mainnet"
    /\ mainpc = "returned_ok"
    /\ Len(sorted_chains) >= 2
    /\ \E c \in DOMAIN chain_reports :
           /\ chain_reports[c].priority_tree_note = "Some(skipped)"
           /\ chain_reports[c].priority_tree_verified = "None"
           /\ c \in state_transitions

----------------------------------------------------------------------------
(* Termination of get_all_events (checked under SpecScanFair).             *)

ScanEnded == pc \in {"done", "failed"}
CallBound ==
    Min(CeilDiv(head, BLOCKS_PER_CALL), block_limit \div BLOCKS_PER_CALL + 1)

\* C30: get_all_events terminates for every head H and depth limit D as long
\* as each remote call returns: every answered iteration moves the cursor
\* strictly down, the step counter is at least 1 whenever the loop condition
\* is evaluated, at most min(ceil(H / 500), floor(D / 500) + 1) getLogs
\* calls are issued, and with H = 0 no getLogs call is issued and the result
\* is empty.
C30_ScanTerminates ==
    /\ [](scan = GET_ALL_EVENTS =>
              /\ pc = "loop" => steps >= 1
              /\ Len(windows) <= CallBound
              /\ head = 0 =>
                     /\ windows = <<>> /\ result = <<>>
                     /\ pc = "done" => ret = OkReturn(<<>>))
    /\ [][(scan = GET_ALL_EVENTS /\ pc = "await_logs" /\ pc' \in {"loop", "done"})
              => current_block' < current_block]_vars
    /\ (scan = GET_ALL_EVENTS) ~> ScanEnded

\* a scan that returned after exactly the bound's number of calls, stopped
\* by the step counter above block 0
C30_Witness ==
    /\ scan = GET_ALL_EVENTS /\ pc = "done" /\ ret.ok
    /\ Len(windows) = CallBound
    /\ Len(windows) >= 2
    /\ current_block > 0
    /\ steps = 0

====
